---- MODULE Spec2Model ----
(***************************************************************************)
(* quickswitch: the list navigation of the data providers, the shared      *)
(* preview state with its background preview tasks, and the history store. *)
(* Indices are 0-based as in the source; sequences are 1-based, so item i  *)
(* of a Vec is seq[i + 1].                                                 *)
(***************************************************************************)
EXTENDS Integers, Sequences, FiniteSets, TLC

VARIABLES
    mode,               \* AppMode of the mode manager
    current_dir,        \* AppState.current_dir
    files,              \* AppState.files
    filtered_files,     \* AppState.filtered_files
    selected,           \* AppState.file_list_state.selected()
    offset,             \* AppState.file_list_state.offset()
    search_input,       \* AppState.search_input
    is_searching,       \* AppState.is_searching
    show_hidden_files,  \* AppState.show_hidden_files
    dir_positions,      \* AppState.dir_positions
    left_height,        \* AppState.layout.get_left_content_height()
    preview,            \* the PreviewState behind GLOBAL_PREVIEW_STATE
    tasks,              \* background preview tasks spawned and not yet finished
    double_click_state, \* AppState.double_click_state
    h_requested,        \* history variable: path of the latest preview request
    h_listing,          \* history variable: the directory listing the history mode was entered from
    terminal,           \* the terminal's mode and where run_interactive_mode stands
    bin_file,           \* <data-dir>/quickswitch.history.bin
    legacy_file,        \* <data-dir>/quickswitch.history and its .bak
    exists,             \* the paths that exist on disk
    clock,              \* Utc::now(), in days
    h_saved,            \* history variable: the list given to the last successful save
    events,             \* history variable: the number of events handled so far
    last_op             \* the last operation, its arguments and what it returned

vars == <<mode, current_dir, files, filtered_files, selected, offset,
          search_input, is_searching, show_hidden_files, dir_positions,
          left_height, preview, tasks, double_click_state, h_requested, h_listing,
          terminal, bin_file, legacy_file,
          exists, clock, h_saved, events, last_op>>

----------------------------------------------------------------------------
(* Bounds of the model *)

MaxTasks == 2
MaxSearchLen == 2
MaxAdds == 4
MaxLegacyLines == 3
MaxRow == 1
MaxEvents == 4
MaxFrequency == 3
MaxNow == 33
MaxLines == 3
MaxOffset == 4

\* HistoryConfig::default().max_entries is 100; the model runs the store with
\* this smaller limit, which add_to_history reads as config.max_entries.
max_entries == 2

----------------------------------------------------------------------------
(* Values *)

NoSel == 0 - 1
NoPath == 0

\* The value of F at v, with v computed once
Let(v, F(_)) == CHOOSE y \in {F(x) : x \in {v}} : TRUE

SatSub(a, b) == IF a >= b THEN a - b ELSE 0

Min(a, b) == IF a <= b THEN a ELSE b

Max(a, b) == IF a >= b THEN a ELSE b

\* The characters of the names, with their byte values (str::cmp is bytewise).
CharCode == [c \in {".", "B", "a", "b"} |->
    CASE c = "." -> 46 [] c = "B" -> 66 [] c = "a" -> 97 [] c = "b" -> 98]

to_lowercase(s) == [i \in DOMAIN s |-> IF s[i] = "B" THEN "b" ELSE s[i]]

\* str::cmp: a < b
StrLess(a, b) ==
    \E k \in 1..(Min(Len(a), Len(b)) + 1) :
        /\ \A j \in 1..(k - 1) : a[j] = b[j]
        /\ \/ k = Len(a) + 1 /\ k <= Len(b)
           \/ k <= Len(a) /\ k <= Len(b) /\ CharCode[a[k]] < CharCode[b[k]]

\* str::contains
contains(hay, needle) ==
    \E i \in 0..(Len(hay) - Len(needle)) :
        SubSeq(hay, i + 1, i + Len(needle)) = needle

\* The filesystem the model runs on: node n is FsTable[n]; parent 0 is "no
\* parent" (the root).  lines is the number of lines of a file's preview.
FsTable == <<
    [name |-> <<>>,          is_dir |-> TRUE,  parent |-> 0, lines |-> 0],
    [name |-> <<"a", "b">>,  is_dir |-> TRUE,  parent |-> 1, lines |-> 0],
    [name |-> <<"B", "a">>,  is_dir |-> TRUE,  parent |-> 1, lines |-> 0],
    [name |-> <<"b">>,       is_dir |-> FALSE, parent |-> 1, lines |-> 3],
    [name |-> <<".", "a">>,  is_dir |-> FALSE, parent |-> 1, lines |-> 1],
    [name |-> <<"a">>,       is_dir |-> FALSE, parent |-> 2, lines |-> 2] >>

Paths == DOMAIN FsTable

Dirs == {n \in Paths : FsTable[n].is_dir}

RECURSIVE SetToSeq(_)
SetToSeq(S) ==
    IF S = {} THEN <<>>
    ELSE LET x == CHOOSE y \in S : TRUE IN <<x>> \o SetToSeq(S \ {x})

\* Vec::insert(i, x), i 0-based
InsertAt(seq, i, x) == SubSeq(seq, 1, i) \o <<x>> \o SubSeq(seq, i + 1, Len(seq))

\* Vec::remove(i), i 0-based
RemoveAt(seq, i) == SubSeq(seq, 1, i) \o SubSeq(seq, i + 2, Len(seq))

\* slice::sort_by with the strict weak order Less.  The sort is stable: an
\* element goes behind the smaller ones and behind the earlier equivalent ones.
sort_by(seq, Less(_, _)) ==
    LET n == Len(seq)
        rank(i) == Cardinality({j \in 1..n : Less(seq[j], seq[i])})
                 + Cardinality({j \in 1..(i - 1) :
                        ~Less(seq[j], seq[i]) /\ ~Less(seq[i], seq[j])})
                 + 1
    IN [k \in 1..n |-> seq[CHOOSE i \in 1..n : rank(i) = k]]

----------------------------------------------------------------------------
(* History store: src/modes/history/data_provider.rs, src/utils.rs *)

time_decay_days == 30
min_frequency_threshold == 1

\* Days by which Tick moves the clock, and the last day of the model.
TickDays == {30}
LastDay == time_decay_days

\* The paths given to add_to_history and found in the legacy file; line 0 of
\* the legacy file is a line that names no existing path.
HistPaths == {1, 2, 3}

\* The paths that may be deleted while the program runs
RemovablePaths == {2}
LegacyLines == {0, 1}

SortModes == {"Frequency", "Recent", "FrequencyRecent", "Alphabetical"}

\* HistoryEntry::new
HistoryEntry_new(path, now) ==
    [path |-> path, frequency |-> 1, last_accessed |-> now, first_accessed |-> now]

\* increment_frequency without the increment
increment_frequency_stale(entry, now) == [entry EXCEPT !.last_accessed = now]

\* HistoryEntry::increment_frequency
increment_frequency(entry, now) ==
    [entry EXCEPT !.frequency = @ + 1, !.last_accessed = now]

\* calculate_time_decay with a weight that grows with the days elapsed
calculate_time_decay_growing(entry, decay_days, now) ==
    LET days_since_access == now - entry.last_accessed
    IN IF days_since_access <= 0 THEN 10 * decay_days
       ELSE Max(decay_days, 10 * Min(days_since_access, decay_days))

\* HistoryEntry::calculate_time_decay, times 10 * decay_days (an integer):
\* 1.0 for days <= 0, otherwise max(0.1, 1 - min(days / decay_days, 1)).
calculate_time_decay(entry, decay_days, now) ==
    LET days_since_access == now - entry.last_accessed
    IN IF days_since_access <= 0 THEN 10 * decay_days
       ELSE Max(decay_days, 10 * decay_days - 10 * Min(days_since_access, decay_days))

\* HistoryEntry::calculate_score, times 10 * decay_days
calculate_score(entry, decay_days, now) ==
    entry.frequency * calculate_time_decay(entry, decay_days, now)

\* Path::file_name
file_name(path) == FsTable[path].name

\* bincode::serde::encode_to_vec of a slice of HistoryEntry: the length, then
\* the fields of each entry in declaration order.
encode_to_vec(entries) ==
    [j \in 1..(1 + 4 * Len(entries)) |->
        IF j = 1 THEN Len(entries)
        ELSE LET e == entries[((j - 2) \div 4) + 1]
                 k == (j - 2) % 4
             IN CASE k = 0 -> e.path
                  [] k = 1 -> e.frequency
                  [] k = 2 -> e.last_accessed
                  [] k = 3 -> e.first_accessed]

\* decode_from_slice reading the fields of an entry in another order than
\* encode_to_vec writes them
decode_from_slice_shifted(data) ==
    IF Len(data) >= 1 /\ data[1] >= 0 /\ Len(data) >= 1 + 4 * data[1]
    THEN [ok |-> TRUE,
          entries |-> [i \in 1..data[1] |->
              [path |-> data[4 * i - 2], frequency |-> data[4 * i],
               last_accessed |-> data[4 * i - 1], first_accessed |-> data[4 * i + 1]]]]
    ELSE [ok |-> FALSE, entries |-> <<>>]

\* bincode::serde::decode_from_slice to Vec<HistoryEntry>: fails when the data
\* end before the announced entries do; bytes after them are ignored.
decode_from_slice(data) ==
    IF Len(data) >= 1 /\ data[1] >= 0 /\ Len(data) >= 1 + 4 * data[1]
    THEN [ok |-> TRUE,
          entries |-> [i \in 1..data[1] |->
              [path |-> data[4 * i - 2], frequency |-> data[4 * i - 1],
               last_accessed |-> data[4 * i], first_accessed |-> data[4 * i + 1]]]]
    ELSE [ok |-> FALSE, entries |-> <<>>]

\* The two history files, as one value the operations below transform.
Disk == [bin |-> bin_file, legacy |-> legacy_file, saved |-> h_saved]

\* HistoryDataProvider::save_history_entries; io.write is whether fs::write
\* succeeds.
save_history_entries(disk, entries, io) ==
    IF io.write
    THEN [ret |-> "Ok",
          disk |-> [disk EXCEPT !.bin = [present |-> TRUE, data |-> encode_to_vec(entries)],
                                !.saved = [some |-> TRUE, entries |-> entries]]]
    ELSE [ret |-> "Err", disk |-> disk]

\* fs::rename of the legacy file to quickswitch.history.bak
rename(legacy) ==
    [present |-> FALSE, lines |-> <<>>,
     bak |-> [present |-> TRUE, lines |-> legacy.lines]]

\* migrate_from_legacy that leaves the legacy file where it is
migrate_from_legacy_keeps_legacy(disk, ex, now, io) ==
    IF disk.legacy.present /\ io.read
    THEN Let(SelectSeq(disk.legacy.lines, LAMBDA l : l \in ex), LAMBDA kept :
         Let([i \in 1..Len(kept) |-> HistoryEntry_new(kept[i], now)], LAMBDA entries :
         Let(save_history_entries(disk, entries, io), LAMBDA saved :
             IF saved.ret = "Err"
             THEN [ret |-> "Err", entries |-> <<>>, disk |-> disk]
             ELSE [ret |-> "Ok", entries |-> entries, disk |-> saved.disk])))
    ELSE [ret |-> "Ok", entries |-> <<>>, disk |-> disk]

\* HistoryDataProvider::migrate_from_legacy
migrate_from_legacy(disk, ex, now, io) ==
    IF disk.legacy.present /\ io.read
    THEN Let(SelectSeq(disk.legacy.lines, LAMBDA l : l \in ex), LAMBDA kept :
         Let([i \in 1..Len(kept) |-> HistoryEntry_new(kept[i], now)], LAMBDA entries :
         Let(save_history_entries(disk, entries, io), LAMBDA saved :
             IF saved.ret = "Err"
             THEN [ret |-> "Err", entries |-> <<>>, disk |-> disk]
             ELSE [ret |-> "Ok", entries |-> entries,
                   disk |-> [saved.disk EXCEPT !.legacy = rename(@)]])))
    ELSE [ret |-> "Ok", entries |-> <<>>, disk |-> disk]

\* What load_history_entries returns where it turns to the legacy file: the
\* migrated entries, or an empty list if the migration failed.
MigratedOrEmpty(disk, ex, now, io) ==
    Let(migrate_from_legacy(disk, ex, now, io), LAMBDA mig :
        IF mig.ret = "Ok" THEN mig
        ELSE [ret |-> "Ok", entries |-> <<>>, disk |-> disk])

\* HistoryDataProvider::load_history_entries; io.read is whether fs::read and
\* fs::read_to_string succeed.
load_history_entries(disk, ex, now, io) ==
    IF disk.bin.present
    THEN IF ~io.read
         THEN [ret |-> "Err", entries |-> <<>>, disk |-> disk]
         ELSE Let(decode_from_slice(disk.bin.data), LAMBDA dec :
                  IF dec.ok
                  THEN [ret |-> "Ok", entries |-> dec.entries, disk |-> disk]
                  ELSE MigratedOrEmpty(disk, ex, now, io))
    ELSE IF disk.legacy.present
         THEN MigratedOrEmpty(disk, ex, now, io)
         ELSE [ret |-> "Ok", entries |-> <<>>, disk |-> disk]

\* entries.iter().position(|entry| entry.path == path), 0-based, NoSel for None
position(entries, path) ==
    LET hits == {i \in 1..Len(entries) : entries[i].path = path}
    IN IF hits = {} THEN NoSel
       ELSE (CHOOSE i \in hits : \A j \in hits : i <= j) - 1

\* truncate that cuts nothing off
truncate_none(seq, n) == seq

\* Vec::truncate
truncate(seq, n) == IF Len(seq) > n THEN SubSeq(seq, 1, n) ELSE seq

\* The list add_to_history saves: the entry of path moved to the front with
\* its frequency incremented, or a new entry at the front; then the limit.
Touched(entries, path, now) ==
    LET existing_index == position(entries, path)
        updated ==
            IF existing_index # NoSel
            THEN InsertAt(RemoveAt(entries, existing_index), 0,
                          increment_frequency(entries[existing_index + 1], now))
            ELSE InsertAt(entries, 0, HistoryEntry_new(path, now))
    IN truncate(updated, max_entries)

\* HistoryDataProvider::add_to_history
add_to_history(disk, path, ex, now, io) ==
    Let(load_history_entries(disk, ex, now, io), LAMBDA loaded :
        IF loaded.ret = "Err"
        THEN [ret |-> "Err", disk |-> disk, was_new |-> FALSE]
        ELSE Let(save_history_entries(loaded.disk, Touched(loaded.entries, path, now), io),
                 LAMBDA saved :
                    [ret |-> saved.ret, disk |-> saved.disk,
                     was_new |-> position(loaded.entries, path) = NoSel]))

\* The comparators with the Frequency order reversed
SortLess_ascending(sort_mode, now, a, b) ==
    CASE sort_mode = "Frequency" -> a.frequency < b.frequency
      [] sort_mode = "Recent" -> b.last_accessed < a.last_accessed
      [] sort_mode = "FrequencyRecent" ->
            calculate_score(b, time_decay_days, now) < calculate_score(a, time_decay_days, now)
      [] sort_mode = "Alphabetical" -> StrLess(file_name(a.path), file_name(b.path))

\* The comparators of get_sorted_entries, as "a goes before b".
SortLess(sort_mode, now, a, b) ==
    CASE sort_mode = "Frequency" -> b.frequency < a.frequency
      [] sort_mode = "Recent" -> b.last_accessed < a.last_accessed
      [] sort_mode = "FrequencyRecent" ->
            calculate_score(b, time_decay_days, now) < calculate_score(a, time_decay_days, now)
      [] sort_mode = "Alphabetical" -> StrLess(file_name(a.path), file_name(b.path))

\* HistoryDataProvider::get_sorted_entries
get_sorted_entries(disk, sort_mode, ex, now, io) ==
    Let(load_history_entries(disk, ex, now, io), LAMBDA loaded :
        IF loaded.ret = "Err"
        THEN [ret |-> "Err", entries |-> <<>>, disk |-> disk]
        ELSE [ret |-> "Ok", disk |-> loaded.disk,
              entries |-> SelectSeq(
                  sort_by(loaded.entries, LAMBDA a, b : SortLess(sort_mode, now, a, b)),
                  LAMBDA e : e.path \in ex)])

\* HistoryDataProvider::cleanup_old_entries
cleanup_old_entries(disk, ex, now, io) ==
    Let(load_history_entries(disk, ex, now, io), LAMBDA loaded :
        IF loaded.ret = "Err" THEN [ret |-> "Err", disk |-> disk]
        ELSE Let(save_history_entries(
                     loaded.disk,
                     SelectSeq(loaded.entries,
                               LAMBDA e : e.frequency >= min_frequency_threshold),
                     io),
                 LAMBDA saved : [ret |-> saved.ret, disk |-> saved.disk]))

----------------------------------------------------------------------------
(* Entry model and application state: src/utils.rs, src/app_state.rs *)

\* The rows a terminal gives the list panel (0 before the first update_layout).
Heights == {0, 4}

\* The characters typed into the search box.
SearchChars == {"B", "a"}

NoItem == [some |-> FALSE]
SomeItem(item) == [some |-> TRUE, item |-> item]

\* The FileItem that load_directory builds from a directory entry.
FileItem_of(n) ==
    [tag |-> "File", name |-> FsTable[n].name, path |-> n, is_dir |-> FsTable[n].is_dir]

\* FileItem::from_path
FileItem_from_path(path, ex) ==
    [tag |-> "File", name |-> file_name(path), path |-> path,
     is_dir |-> path \in ex /\ FsTable[path].is_dir]

\* DisplayItem::History
HistoryItem(entry) ==
    [tag |-> "History", path |-> entry.path, frequency |-> entry.frequency,
     last_accessed |-> entry.last_accessed, first_accessed |-> entry.first_accessed]

\* DisplayItem::get_display_name
get_display_name(item) ==
    IF item.tag = "File" THEN item.name ELSE file_name(item.path)

\* DisplayItem::is_directory
is_directory(item, ex) ==
    IF item.tag = "File" THEN item.is_dir
    ELSE item.path \in ex /\ FsTable[item.path].is_dir

\* The order of load_directory: directories first, then by name.
DirLess(a, b) ==
    \/ a.is_dir /\ ~b.is_dir
    \/ a.is_dir = b.is_dir /\ StrLess(a.name, b.name)

\* FilesystemService::load_directory; io.read is whether fs::read_dir succeeds.
load_directory(dir, ex, io) ==
    IF ~io.read \/ dir \notin ex \/ ~FsTable[dir].is_dir
    THEN [ok |-> FALSE, files |-> <<>>]
    ELSE LET children == {n \in ex : FsTable[n].parent = dir}
             items == [i \in 1..Cardinality(children) |-> FileItem_of(SetToSeq(children)[i])]
         IN [ok |-> TRUE,
             files |-> <<[tag |-> "File", name |-> <<".">>, path |-> dir, is_dir |-> TRUE]>>
                       \o sort_by(items, DirLess)]

\* The program state the handlers work on, as one value.
St ==
    [mode |-> mode, current_dir |-> current_dir, files |-> files,
     filtered_files |-> filtered_files, selected |-> selected, offset |-> offset,
     search_input |-> search_input, is_searching |-> is_searching,
     show_hidden_files |-> show_hidden_files, dir_positions |-> dir_positions,
     left_height |-> left_height, preview |-> preview, tasks |-> tasks,
     double_click_state |-> double_click_state,
     requested |-> h_requested, disk |-> Disk]

\* ratatui ListState::select: selecting None also resets the offset.
select(s, index) ==
    [s EXCEPT !.selected = index, !.offset = IF index = NoSel THEN 0 ELSE @]

\* should_show_item that shows every item
should_show_item_all(s, item) == TRUE

\* AppState::should_show_item
should_show_item(s, item) ==
    IF item.tag # "File" THEN TRUE
    ELSE IF Len(get_display_name(item)) >= 1 /\ get_display_name(item)[1] = "."
         THEN s.show_hidden_files
         ELSE TRUE

\* The indices (0-based, in order) of the items that keep holds of.
IndicesWhere(items, keep(_)) ==
    SelectSeq([i \in 1..Len(items) |-> i - 1], LAMBDA i : keep(items[i + 1]))

\* AppState::reset_filter
reset_filter(s) ==
    select([s EXCEPT !.filtered_files =
                IndicesWhere(s.files, LAMBDA item : should_show_item(s, item))],
           NoSel)

\* apply_search_filter that leaves the selection as it is
apply_search_filter_keep(s) ==
    LET search_lower == to_lowercase(s.search_input)
    IN [s EXCEPT !.filtered_files =
            IndicesWhere(s.files, LAMBDA item :
                /\ should_show_item(s, item)
                /\ contains(to_lowercase(get_display_name(item)), search_lower))]

\* apply_search_filter that searches in the list already filtered
apply_search_filter_narrowing(s) ==
    LET search_lower == to_lowercase(s.search_input)
        shown ==
            SelectSeq(s.filtered_files, LAMBDA i :
                /\ i < Len(s.files)
                /\ should_show_item(s, s.files[i + 1])
                /\ contains(to_lowercase(get_display_name(s.files[i + 1])), search_lower))
    IN select([s EXCEPT !.filtered_files = shown], NoSel)

\* AppState::apply_search_filter
apply_search_filter(s) ==
    LET search_lower == to_lowercase(s.search_input)
        shown ==
            IF s.search_input = <<>>
            THEN IndicesWhere(s.files, LAMBDA item : should_show_item(s, item))
            ELSE IndicesWhere(s.files, LAMBDA item :
                    /\ should_show_item(s, item)
                    /\ contains(to_lowercase(get_display_name(item)), search_lower))
    IN select([s EXCEPT !.filtered_files = shown], NoSel)

\* AppState::load_file_items
load_file_items(s, file_items) == reset_filter([s EXCEPT !.files = file_items])

\* AppState::toggle_hidden_files
toggle_hidden_files(s) ==
    apply_search_filter([s EXCEPT !.show_hidden_files = ~@])

\* AppState::get_selected_item
get_selected_item(s) ==
    IF /\ s.selected # NoSel
       /\ s.selected < Len(s.filtered_files)
       /\ s.filtered_files[s.selected + 1] < Len(s.files)
    THEN SomeItem(s.files[s.filtered_files[s.selected + 1] + 1])
    ELSE NoItem

----------------------------------------------------------------------------
(* Preview state and preview manager: src/services/global_preview_state.rs,
   src/services/preview_manager.rs *)

\* PreviewState::default, also what clear_preview writes
DefaultPreview ==
    [title |-> <<"Preview">>,
     content |-> [kind |-> "No file selected", path |-> NoPath],
     scroll_offset |-> 0]

\* PreviewContent::len
content_len(content, ex) ==
    CASE content.kind = "No file selected" -> 1
      [] content.kind = "Loading preview..." -> 3
      [] content.kind = "text" -> content.lines
      [] content.kind = "generated" ->
            IF content.path \in ex /\ FsTable[content.path].is_dir
            THEN Max(1, Cardinality({n \in ex : FsTable[n].parent = content.path}))
            ELSE FsTable[content.path].lines

\* GlobalPreviewState::update_preview
update_preview(pv, title, content) ==
    [title |-> title, content |-> content, scroll_offset |-> 0]

\* GlobalPreviewState::clear_preview
clear_preview(pv) == DefaultPreview

\* GlobalPreviewState::reset_scroll
reset_scroll(pv) == [pv EXCEPT !.scroll_offset = 0]

\* GlobalPreviewState::set_scroll_offset
set_scroll_offset(pv, new_offset) == [pv EXCEPT !.scroll_offset = new_offset]

\* GlobalPreviewState::scroll_up
scroll_up(pv) ==
    IF pv.scroll_offset > 0
    THEN [pv |-> [pv EXCEPT !.scroll_offset = @ - 1], ret |-> TRUE]
    ELSE [pv |-> pv, ret |-> FALSE]

\* scroll_down that stops one line further down
scroll_down_past_end(pv, ex) ==
    IF pv.scroll_offset < content_len(pv.content, ex)
    THEN [pv |-> [pv EXCEPT !.scroll_offset = @ + 1], ret |-> TRUE]
    ELSE [pv |-> pv, ret |-> FALSE]

\* GlobalPreviewState::scroll_down
scroll_down(pv, ex) ==
    IF pv.scroll_offset + 1 < content_len(pv.content, ex)
    THEN [pv |-> [pv EXCEPT !.scroll_offset = @ + 1], ret |-> TRUE]
    ELSE [pv |-> pv, ret |-> FALSE]

\* PreviewGenerator::generate_preview_content: the title and the content of
\* the first generator that handles the file (the filesystem has directories
\* and plain files).
generate_preview_content(file_item) ==
    [title |-> <<IF file_item.is_dir THEN "folder" ELSE "doc", file_item.name>>,
     content |-> [kind |-> "generated", path |-> file_item.path]]

\* PreviewManager::update_preview_for_item_async up to tokio::spawn: the
\* placeholder is written and a background task for the path is spawned.
update_preview_for_item_async(s, item, ex) ==
    LET file_item == IF item.tag = "File" THEN item ELSE FileItem_from_path(item.path, ex)
        placeholder_title == <<"doc", file_item.name>>
        placeholder_content == [kind |-> "Loading preview...", path |-> file_item.path]
        file_path == file_item.path
    IN [s EXCEPT !.preview = update_preview(@, placeholder_title, placeholder_content),
                 !.tasks = [@ EXCEPT ![file_path] = @ + 1],
                 !.requested = file_path]

\* The task update_preview_for_item_async spawns, when it completes: it
\* generates the content for its path and writes it.
PreviewTaskBody(pv, file_path, ex) ==
    LET generated == generate_preview_content(FileItem_from_path(file_path, ex))
    IN update_preview(pv, generated.title, generated.content)

\* PreviewManager::update_preview_for_item: generates and writes at once.
update_preview_for_item(s, item, ex) ==
    LET file_item == IF item.tag = "File" THEN item ELSE FileItem_from_path(item.path, ex)
        generated == generate_preview_content(file_item)
    IN [s EXCEPT !.preview = update_preview(@, generated.title, generated.content),
                 !.requested = file_item.path]

\* PreviewManager::clear_preview
PreviewManager_clear_preview(s) ==
    [s EXCEPT !.preview = clear_preview(@), !.requested = NoPath]

\* PreviewManager::preview_for_selected_item: the preview pipeline is
\* triggered for the selected item, if there is one.
preview_for_selected_item(s, ex) ==
    IF get_selected_item(s).some
    THEN update_preview_for_item_async(s, get_selected_item(s).item, ex)
    ELSE s

----------------------------------------------------------------------------
(* Data providers: src/services/data_provider.rs,
   src/modes/normal/data_provider.rs, src/modes/history/data_provider.rs *)

\* DataProvider::update_scroll_offset
update_scroll_offset(s, visible_height) ==
    IF visible_height = 0 \/ s.selected = NoSel THEN s
    ELSE LET current_offset == s.offset
             new_offset ==
                 IF s.selected < current_offset THEN s.selected
                 ELSE IF \/ s.selected >= current_offset + visible_height
                         \/ s.selected < current_offset + visible_height - 1
                      THEN SatSub(s.selected, visible_height - 1)
                      ELSE current_offset
         IN [s EXCEPT !.offset = new_offset]

\* A navigation that does everything and reports false
Navigated_unreported(s, index, visible_height, ex) ==
    [s |-> preview_for_selected_item(
               update_scroll_offset(select(s, index), visible_height), ex),
     ret |-> FALSE]

\* What every successful navigation does with the new selection.
Navigated(s, index, visible_height, ex) ==
    [s |-> preview_for_selected_item(
               update_scroll_offset(select(s, index), visible_height), ex),
     ret |-> TRUE]

\* DataProvider::navigate_up
navigate_up(s, ex) ==
    LET visible_height == s.left_height \div 2
    IN IF s.selected # NoSel
       THEN IF s.selected > 0
            THEN Navigated(s, s.selected - 1, visible_height, ex)
            ELSE [s |-> s, ret |-> FALSE]
       ELSE IF s.filtered_files # <<>>
            THEN Navigated(s, Len(s.filtered_files) - 1, visible_height, ex)
            ELSE [s |-> s, ret |-> FALSE]

\* navigate_down that goes on to the first row after the last one
navigate_down_wrapping(s, ex) ==
    LET total == Len(s.filtered_files)
        visible_height == s.left_height \div 2
    IN IF total = 0 THEN [s |-> s, ret |-> FALSE]
       ELSE IF s.selected # NoSel
            THEN Navigated(s, (s.selected + 1) % total, visible_height, ex)
            ELSE Navigated(s, 0, visible_height, ex)

\* DataProvider::navigate_down
navigate_down(s, ex) ==
    LET total == Len(s.filtered_files)
        visible_height == s.left_height \div 2
    IN IF total = 0 THEN [s |-> s, ret |-> FALSE]
       ELSE IF s.selected # NoSel
            THEN IF s.selected + 1 < total
                 THEN Navigated(s, s.selected + 1, visible_height, ex)
                 ELSE [s |-> s, ret |-> FALSE]
            ELSE Navigated(s, 0, visible_height, ex)

\* DataProvider::navigate_half_page_up
navigate_half_page_up(s, ex) ==
    LET total == Len(s.filtered_files)
        visible_height == s.left_height
        half_page == Max(visible_height \div 2, 1)
    IN IF total = 0 THEN [s |-> s, ret |-> FALSE]
       ELSE IF s.selected # NoSel
            THEN Navigated(s, SatSub(s.selected, half_page), visible_height, ex)
            ELSE Navigated(s, total - 1, visible_height, ex)

\* DataProvider::navigate_half_page_down
navigate_half_page_down(s, ex) ==
    LET total == Len(s.filtered_files)
        visible_height == s.left_height
        half_page == Max(visible_height \div 2, 1)
    IN IF total = 0 THEN [s |-> s, ret |-> FALSE]
       ELSE IF s.selected # NoSel
            THEN Navigated(s, Min(s.selected + half_page, total - 1), visible_height, ex)
            ELSE Navigated(s, 0, visible_height, ex)

\* FileListDataProvider::save_position
save_position(s) ==
    IF s.selected # NoSel
    THEN [s EXCEPT !.dir_positions = [@ EXCEPT ![s.current_dir] = s.selected]]
    ELSE s

\* FileListDataProvider::restore_position; NoSel in dir_positions is "no entry".
restore_position(s) ==
    LET saved_position == s.dir_positions[s.current_dir]
    IN IF saved_position # NoSel
       THEN IF saved_position < Len(s.filtered_files)
            THEN select(s, saved_position)
            ELSE IF s.filtered_files # <<>>
                 THEN select(s, Len(s.filtered_files) - 1)
                 ELSE select(s, NoSel)
       ELSE select(s, NoSel)

\* load_data that reads the directory only while there are no items yet
FileList_load_data_stale(s, ex, io) ==
    Let(load_directory(s.current_dir, ex, io), LAMBDA loaded :
        IF ~loaded.ok THEN [ok |-> FALSE, s |-> s]
        ELSE [ok |-> TRUE,
              s |-> apply_search_filter(IF s.files = <<>>
                                        THEN load_file_items(s, loaded.files)
                                        ELSE reset_filter(s))])

\* FileListDataProvider::load_data
FileList_load_data(s, ex, io) ==
    Let(load_directory(s.current_dir, ex, io), LAMBDA loaded :
        IF ~loaded.ok THEN [ok |-> FALSE, s |-> s]
        ELSE [ok |-> TRUE, s |-> apply_search_filter(load_file_items(s, loaded.files))])

\* on_directory_changed that leaves the preview as it was
on_directory_changed_keeps_preview(s, ex, io) ==
    Let([s EXCEPT !.search_input = <<>>, !.is_searching = FALSE], LAMBDA cleared :
    Let(FileList_load_data(cleared, ex, io), LAMBDA loaded :
        IF ~loaded.ok THEN [ok |-> FALSE, s |-> cleared]
        ELSE [ok |-> TRUE, s |-> restore_position(loaded.s)]))

\* FileListDataProvider::on_directory_changed
on_directory_changed(s, ex, io) ==
    Let([s EXCEPT !.search_input = <<>>, !.is_searching = FALSE], LAMBDA cleared :
    Let(FileList_load_data(cleared, ex, io), LAMBDA loaded :
        IF ~loaded.ok THEN [ok |-> FALSE, s |-> cleared]
        ELSE [ok |-> TRUE, s |-> PreviewManager_clear_preview(restore_position(loaded.s))]))

\* The rest of navigate_into_directory and navigate_to_parent once the target
\* is known: the position is saved, current_dir set, on_directory_changed run.
ChangeDirectory(s, target, ex, io) ==
    Let(on_directory_changed([save_position(s) EXCEPT !.current_dir = target], ex, io),
        LAMBDA changed : [ok |-> changed.ok, s |-> changed.s, action |-> "Stay"])

\* FileListDataProvider::navigate_into_directory; action is the ModeAction
\* the dispatcher gets (None becomes Stay there).
FileList_navigate_into_directory(s, ex, io) ==
    Let(get_selected_item(s), LAMBDA sel :
        IF sel.some /\ is_directory(sel.item, ex)
        THEN ChangeDirectory(s, sel.item.path, ex, io)
        ELSE [ok |-> TRUE, s |-> s, action |-> "Stay"])

\* FileListDataProvider::navigate_to_parent
FileList_navigate_to_parent(s, ex, io) ==
    IF FsTable[s.current_dir].parent # NoPath
    THEN ChangeDirectory(s, FsTable[s.current_dir].parent, ex, io)
    ELSE [ok |-> TRUE, s |-> s, action |-> "Stay"]

\* HistoryDataProvider::load_data; the configured sort mode is FrequencyRecent.
History_load_data(s, ex, now, io) ==
    Let(get_sorted_entries(s.disk, "FrequencyRecent", ex, now, io), LAMBDA sorted :
        IF sorted.ret = "Err" THEN [ok |-> FALSE, s |-> s]
        ELSE [ok |-> TRUE,
              s |-> apply_search_filter(
                  [s EXCEPT !.files = [i \in 1..Len(sorted.entries) |->
                                          HistoryItem(sorted.entries[i])],
                            !.disk = sorted.disk])])

\* navigate_into_directory of the history mode that leaves the store alone
History_navigate_into_directory_unrecorded(s, ex, now, io) ==
    Let(get_selected_item(s), LAMBDA sel :
        IF sel.some /\ is_directory(sel.item, ex)
        THEN [ok |-> TRUE, action |-> "SwitchNormal",
              s |-> [s EXCEPT !.current_dir = sel.item.path]]
        ELSE [ok |-> TRUE, s |-> s, action |-> "SwitchNormal"])

\* HistoryDataProvider::navigate_into_directory
History_navigate_into_directory(s, ex, now, io) ==
    Let(get_selected_item(s), LAMBDA sel :
        IF sel.some /\ is_directory(sel.item, ex)
        THEN Let(add_to_history(s.disk, sel.item.path, ex, now, io), LAMBDA added :
                 IF added.ret = "Err"
                 THEN [ok |-> FALSE, s |-> s, action |-> "Stay"]
                 ELSE [ok |-> TRUE, action |-> "SwitchNormal",
                       s |-> [s EXCEPT !.disk = added.disk, !.current_dir = sel.item.path]])
        ELSE [ok |-> TRUE, s |-> s, action |-> "SwitchNormal"])

\* create_data_provider(mode).load_data
load_data(m, s, ex, now, io) ==
    IF m = "Normal" THEN FileList_load_data(s, ex, io)
    ELSE History_load_data(s, ex, now, io)

\* create_data_provider(mode).navigate_into_directory
navigate_into_directory(s, ex, now, io) ==
    IF s.mode = "Normal" THEN FileList_navigate_into_directory(s, ex, io)
    ELSE History_navigate_into_directory(s, ex, now, io)

\* create_data_provider(mode).navigate_to_parent; the history provider keeps
\* the default of the trait, a switch to Normal mode.
navigate_to_parent(s, ex, io) ==
    IF s.mode = "Normal" THEN FileList_navigate_to_parent(s, ex, io)
    ELSE [ok |-> TRUE, s |-> s, action |-> "SwitchNormal"]

\* ModeManager::switch_mode: on_exit of the old mode (Normal mode saves the
\* position), the search is cleared, the data of the new mode are loaded.
switch_mode(s, new_mode, ex, now, io) ==
    Let([(IF s.mode = "Normal" THEN save_position(s) ELSE s)
            EXCEPT !.search_input = <<>>, !.is_searching = FALSE], LAMBDA cleared :
    Let(load_data(new_mode, cleared, ex, now, io), LAMBDA loaded :
        IF ~loaded.ok THEN [ok |-> FALSE, s |-> cleared]
        ELSE [ok |-> TRUE, s |-> [loaded.s EXCEPT !.mode = new_mode]]))

----------------------------------------------------------------------------
(* Input dispatcher and event handling: src/core/input_dispatcher.rs,
   src/core/events.rs *)

Keys == {"Esc", "Enter", "/", "v", "Up", "Down", "Right", "Left",
         "k", "j", "l", "h", "PageUp", "PageDown", "Backspace"} \cup SearchChars

\* KeyCode::Char(_)
CharKeys == {"/", "v", "k", "j", "l", "h"} \cup SearchChars

\* GlobalPreviewState::scroll_page_up
scroll_page_up(pv, visible_height) ==
    LET half_screen == Max(visible_height \div 2, 1)
        new_offset == SatSub(pv.scroll_offset, half_screen)
    IN IF new_offset # pv.scroll_offset
       THEN [pv |-> [pv EXCEPT !.scroll_offset = new_offset], ret |-> TRUE]
       ELSE [pv |-> pv, ret |-> FALSE]

\* GlobalPreviewState::scroll_page_down
scroll_page_down(pv, visible_height, ex) ==
    LET half_screen == Max(visible_height \div 2, 1)
        max_offset == SatSub(content_len(pv.content, ex), visible_height)
        new_offset == Min(pv.scroll_offset + half_screen, max_offset)
    IN IF new_offset # pv.scroll_offset
       THEN [pv |-> [pv EXCEPT !.scroll_offset = new_offset], ret |-> TRUE]
       ELSE [pv |-> pv, ret |-> FALSE]

Handled(s, action) == [handled |-> TRUE, ok |-> TRUE, s |-> s, action |-> action]

NotHandled(s) == [handled |-> FALSE, ok |-> TRUE, s |-> s, action |-> "Stay"]

\* InputDispatcher::update_preview_if_needed
update_preview_if_needed(s, ex) ==
    Let(get_selected_item(s), LAMBDA sel :
        IF sel.some THEN update_preview_for_item(s, sel.item, ex) ELSE s)

\* handle_exit_keys where Esc looks at the mode before the search
handle_exit_keys_mode_first(s, key) ==
    CASE key = "Esc" ->
            IF s.mode # "Normal" THEN Handled(s, "SwitchNormal")
            ELSE IF s.is_searching THEN Handled([s EXCEPT !.is_searching = FALSE], "Stay")
            ELSE Handled(s, "ExitNone")
      [] key = "Enter" ->
            IF get_selected_item(s).some THEN Handled(s, "ExitSelected")
            ELSE Handled(s, "Stay")
      [] OTHER -> NotHandled(s)

\* InputDispatcher::handle_exit_keys
handle_exit_keys(s, key) ==
    CASE key = "Esc" ->
            IF s.is_searching THEN Handled([s EXCEPT !.is_searching = FALSE], "Stay")
            ELSE IF s.mode = "Normal" THEN Handled(s, "ExitNone")
            ELSE Handled(s, "SwitchNormal")
      [] key = "Enter" ->
            IF get_selected_item(s).some THEN Handled(s, "ExitSelected")
            ELSE Handled(s, "Stay")
      [] OTHER -> NotHandled(s)

\* handle_mode_switch_keys where "v" switches the mode while searching too
handle_mode_switch_keys_while_searching(s, key) ==
    CASE key = "/" ->
            IF ~s.is_searching THEN Handled([s EXCEPT !.is_searching = TRUE], "Stay")
            ELSE NotHandled(s)
      [] key = "v" ->
            IF s.mode # "History" THEN Handled(s, "SwitchHistory") ELSE NotHandled(s)
      [] OTHER -> NotHandled(s)

\* InputDispatcher::handle_mode_switch_keys
handle_mode_switch_keys(s, key) ==
    CASE key = "/" ->
            IF ~s.is_searching THEN Handled([s EXCEPT !.is_searching = TRUE], "Stay")
            ELSE NotHandled(s)
      [] key = "v" /\ ~s.is_searching ->
            IF s.mode # "History" THEN Handled(s, "SwitchHistory") ELSE NotHandled(s)
      [] OTHER -> NotHandled(s)

\* InputDispatcher::handle_preview_navigation. The page is
\* get_right_content_height(); the two panels share one vertical chunk, so
\* it is the height kept in left_height.
handle_preview_navigation(s, key, ex) ==
    IF key = "PageUp"
    THEN [s EXCEPT !.preview = scroll_page_up(@, s.left_height).pv]
    ELSE [s EXCEPT !.preview = scroll_page_down(@, s.left_height, ex).pv]

\* What a handler returns for the Result<Option<ModeAction>> of a provider
FromProvider(r) == [handled |-> TRUE, ok |-> r.ok, s |-> r.s, action |-> r.action]

\* InputDispatcher::handle_navigation_keys
handle_navigation_keys(s, key, ex, now, io) ==
    CASE key = "Up" \/ (key = "k" /\ ~s.is_searching) ->
            Handled(update_preview_if_needed(navigate_up(s, ex).s, ex), "Stay")
      [] key = "Down" \/ (key = "j" /\ ~s.is_searching) ->
            Handled(update_preview_if_needed(navigate_down(s, ex).s, ex), "Stay")
      [] key = "Right" \/ (key = "l" /\ ~s.is_searching) ->
            Let(navigate_into_directory(s, ex, now, io), FromProvider)
      [] key = "Left" \/ (key = "h" /\ ~s.is_searching) ->
            Let(navigate_to_parent(s, ex, io), FromProvider)
      [] key \in {"PageUp", "PageDown"} ->
            Handled(handle_preview_navigation(s, key, ex), "Stay")
      [] OTHER -> NotHandled(s)

\* InputDispatcher::handle_search_keys
handle_search_keys(s, key) ==
    CASE key \in CharKeys ->
            apply_search_filter([s EXCEPT !.search_input = Append(@, key)])
      [] key = "Backspace" ->
            apply_search_filter([s EXCEPT !.search_input =
                IF @ = <<>> THEN @ ELSE SubSeq(@, 1, Len(@) - 1)])
      [] OTHER -> s

\* InputDispatcher::handle_mode_specific_keys
handle_mode_specific_keys(s, key) ==
    IF s.is_searching THEN Handled(handle_search_keys(s, key), "Stay")
    ELSE Handled(s, "Stay")

\* InputDispatcher::handle_key_event
handle_key_event(s, key, ex, now, io) ==
    Let(handle_exit_keys(s, key), LAMBDA exit_keys :
        IF exit_keys.handled THEN exit_keys
        ELSE Let(handle_mode_switch_keys(s, key), LAMBDA switch_keys :
             IF switch_keys.handled THEN switch_keys
             ELSE Let(handle_navigation_keys(s, key, ex, now, io), LAMBDA navigation_keys :
                  IF navigation_keys.handled THEN navigation_keys
                  ELSE handle_mode_specific_keys(s, key))))

\* select_path that is the item's path for a plain file too
select_path_of_item(s, file) == file.item.path

\* handle_exit: let select_path, the path that is added to the history, set
\* as QS_SELECT_PATH and printed to standard error
select_path(s, file) ==
    IF file.item.is_dir THEN file.item.path ELSE s.current_dir

\* handle_exit of core/events.rs: the selected path is added to the history
\* (an error of the store is dropped) and the process exits.
handle_exit(s, file, ex, now, io) ==
    IF ~file.some THEN [s EXCEPT !.mode = "Exited"]
    ELSE Let(add_to_history(s.disk, select_path(s, file), ex, now, io),
             LAMBDA added :
                [s EXCEPT !.mode = "Exited",
                          !.disk = IF added.ret = "Ok" THEN added.disk ELSE @])

\* The FileItem that an exit carries for the selected item.
ExitFile(s, ex) ==
    LET sel == get_selected_item(s)
    IN IF ~sel.some THEN NoItem
       ELSE IF sel.item.tag = "File" THEN sel
       ELSE SomeItem(FileItem_from_path(sel.item.path, ex))

\* handle_action of core/events.rs, on what the dispatcher returned
handle_action(r, ex, now, io) ==
    IF ~r.ok THEN [ok |-> FALSE, s |-> r.s]
    ELSE CASE r.action = "Stay" -> [ok |-> TRUE, s |-> r.s]
           [] r.action = "SwitchNormal" -> switch_mode(r.s, "Normal", ex, now, io)
           [] r.action = "SwitchHistory" -> switch_mode(r.s, "History", ex, now, io)
           [] r.action = "ExitNone" ->
                 [ok |-> TRUE, s |-> handle_exit(r.s, NoItem, ex, now, io)]
           [] r.action = "ExitSelected" ->
                 [ok |-> TRUE, s |-> handle_exit(r.s, ExitFile(r.s, ex), ex, now, io)]

\* handle_key_event of core/events.rs: the dispatcher, then handle_action
events_handle_key_event(s, key, ex, now, io) ==
    Let(handle_key_event(s, key, ex, now, io), LAMBDA r : handle_action(r, ex, now, io))

DOUBLE_CLICK_INTERVAL_MS == 150

\* An Instant more than DOUBLE_CLICK_INTERVAL_MS ago: since_last_click counts
\* the milliseconds no further than this.
LongAgo == DOUBLE_CLICK_INTERVAL_MS + 1

\* The DoubleClickState when gap more milliseconds have passed.
\* last_click_time is kept as since_last_click, the milliseconds from it to
\* Instant::now().
Elapse(s, gap) ==
    [s EXCEPT !.double_click_state.since_last_click = Min(@ + gap, LongAgo)]

\* is_double_click that compares neither the position nor the index
is_double_click_anywhere(s, mouse_position, clicked_index) ==
    /\ s.double_click_state.last_clicked_index # NoSel
    /\ s.double_click_state.since_last_click <= DOUBLE_CLICK_INTERVAL_MS

\* InputDispatcher::is_double_click; elapsed is since_last_click.
is_double_click(s, mouse_position, clicked_index) ==
    /\ s.double_click_state.last_clicked_index # NoSel
    /\ s.double_click_state.since_last_click <= DOUBLE_CLICK_INTERVAL_MS
    /\ s.double_click_state.last_click_position = mouse_position
    /\ s.double_click_state.last_clicked_index = clicked_index

\* InputDispatcher::update_double_click_state
update_double_click_state(s, mouse_position, clicked_index) ==
    [s EXCEPT !.double_click_state =
        [since_last_click |-> 0, last_click_position |-> mouse_position,
         last_clicked_index |-> clicked_index]]

\* InputDispatcher::handle_left_click on a point of the list panel:
\* mouse_position is <<mouse.column, mouse.row>> with the row counted from the
\* first row of the list, so that visible_row is mouse_position[2].
handle_left_click(s, mouse_position, ex, now, io) ==
    LET visible_row == mouse_position[2]
        clicked_index == visible_row + s.offset
    IN IF clicked_index >= Len(s.filtered_files) THEN Handled(s, "Stay")
       ELSE Let(update_double_click_state(
                    update_preview_if_needed(select(s, clicked_index), ex),
                    mouse_position, clicked_index), LAMBDA clicked :
            Let(get_selected_item(clicked), LAMBDA item :
                IF is_double_click(s, mouse_position, clicked_index) /\ item.some
                THEN IF item.item.tag = "File"
                     THEN Let(navigate_into_directory(clicked, ex, now, io), FromProvider)
                     ELSE Handled(clicked, "ExitSelected")
                ELSE Handled(clicked, "Stay")))

\* The subtraction of u16: a build with overflow checks (the dev profile)
\* panics when b is above a, a build without them (the release profile)
\* wraps around.
sub_u16(a, b, overflow_checks) ==
    IF a >= b THEN [panic |-> FALSE, value |-> a - b]
    ELSE IF overflow_checks THEN [panic |-> TRUE, value |-> 0]
    ELSE [panic |-> FALSE, value |-> (a - b + 65536) % 65536]

\* (mouse.row - left_area.y - 1) as usize of handle_left_click
visible_row_of(mouse_row, left_area_y, overflow_checks) ==
    Let(sub_u16(mouse_row, left_area_y, overflow_checks), LAMBDA above :
        IF above.panic THEN above ELSE sub_u16(above.value, 1, overflow_checks))

\* LayoutManager::is_in_left_area, for the rows
is_in_left_area(y, left_area_y, left_area_height) ==
    y >= left_area_y /\ y < left_area_y + left_area_height

\* InputDispatcher::handle_right_click
handle_right_click(s, ex, io) == Let(navigate_to_parent(s, ex, io), FromProvider)

\* handle_mouse_event of core/events.rs for the two clicks
events_handle_left_click(s, mouse_position, ex, now, io) ==
    Let(handle_left_click(s, mouse_position, ex, now, io),
        LAMBDA r : handle_action(r, ex, now, io))

events_handle_right_click(s, ex, now, io) ==
    Let(handle_right_click(s, ex, io), LAMBDA r : handle_action(r, ex, now, io))

\* InputDispatcher::handle_scroll_navigation
handle_scroll_navigation(s, is_scroll_up, in_left_panel, ex) ==
    IF in_left_panel
    THEN Handled(update_preview_if_needed(
                    IF is_scroll_up THEN navigate_up(s, ex).s ELSE navigate_down(s, ex).s,
                    ex), "Stay")
    ELSE Handled([s EXCEPT !.preview =
                    IF is_scroll_up THEN scroll_up(@).pv ELSE scroll_down(@, ex).pv], "Stay")

(* The history store on its own: the operations of HistoryDataProvider, the
   clock and the disk around them *)

appVars == <<mode, current_dir, files, filtered_files, selected, offset,
             search_input, is_searching, show_hidden_files, dir_positions,
             left_height, preview, tasks, double_click_state, h_requested, h_listing>>

navVars == <<appVars, terminal>>

\* The terminal and the position of run_interactive_mode (src/terminal.rs)
Terminal(pc, is_tty, raw_mode, alternate_screen, result) ==
    [pc |-> pc, is_tty |-> is_tty, raw_mode |-> raw_mode,
     alternate_screen |-> alternate_screen, result |-> result]

\* run_interactive_mode has not been called.
NotStarted == Terminal("start", TRUE, FALSE, FALSE, "None")

\* run_app_loop runs on a terminal that setup_terminal prepared.
InLoop == Terminal("draw", TRUE, TRUE, TRUE, "None")

\* `?` on an Err inside run_interactive_mode: the function returns the error
\* from where it stands.
return_err(t) == [t EXCEPT !.pc = "returned", !.result = "Err"]

\* run_app_loop returns and result is bound: cleanup_terminal is next.
loop_returns(t, result) == [t EXCEPT !.pc = "cleanup_terminal", !.result = result]

\* cleanup_terminal, and lines 32 to 34 on /dev/tty: disable_raw_mode and
\* LeaveAlternateScreen, then run_interactive_mode returns result.
cleanup_terminal(t) ==
    [t EXCEPT !.raw_mode = FALSE, !.alternate_screen = FALSE, !.pc = "returned"]

\* The terminal's part of handle_exit of core/events.rs: disable_raw_mode,
\* LeaveAlternateScreen, std::process::exit(0).
terminal_handle_exit(t) ==
    [t EXCEPT !.raw_mode = FALSE, !.alternate_screen = FALSE, !.pc = "exited"]

\* The terminal after an event of the loop that left the application in
\* new_mode: handle_exit has ended the process, or the handler's error has
\* ended run_app_loop and cleanup_terminal has run.
after_event(t, new_mode) ==
    CASE new_mode = "Exited" -> terminal_handle_exit(t)
      [] new_mode = "Failed" -> cleanup_terminal(loop_returns(t, "Err"))
      [] OTHER -> t

IO == {io \in [read : BOOLEAN, write : BOOLEAN] : io.read \/ io.write}

OpRec(op, arg, ret, was_new, out) ==
    [op |-> op, arg |-> arg, ret |-> ret, was_new |-> was_new, out |-> out]

\* The persisted list: what the binary file decodes to.
Stored ==
    IF bin_file.present THEN decode_from_slice(bin_file.data).entries ELSE <<>>

RECURSIVE SumFrequency(_)
SumFrequency(entries) ==
    IF entries = <<>> THEN 0
    ELSE entries[1].frequency + SumFrequency(Tail(entries))

SetDisk(disk) ==
    /\ bin_file' = disk.bin
    /\ legacy_file' = disk.legacy
    /\ h_saved' = disk.saved

NoFile == [present |-> FALSE, data |-> <<>>]
NoBak == [present |-> FALSE, lines |-> <<>>]
NoLegacy == [present |-> FALSE, lines |-> <<>>, bak |-> NoBak]

HistInit ==
    /\ bin_file \in {NoFile, [present |-> TRUE, data |-> <<1>>]}
    /\ legacy_file \in {NoLegacy} \cup
          {[present |-> TRUE, lines |-> l, bak |-> NoBak] :
              l \in UNION {[1..n -> LegacyLines] : n \in 0..MaxLegacyLines}}
    /\ exists = Paths
    /\ clock = 0
    /\ events = 0
    /\ h_saved = [some |-> FALSE, entries |-> <<>>]
    /\ last_op = OpRec("init", "", "Ok", FALSE, <<>>)

Add(p, io) ==
    /\ SumFrequency(Stored) < MaxAdds
    /\ \E r \in {add_to_history(Disk, p, exists, clock, io)} :
          /\ SetDisk(r.disk)
          /\ last_op' = OpRec("add", p, r.ret, r.was_new,
                              IF r.ret = "Ok" /\ r.was_new /\ Len(Stored) >= max_entries
                              THEN SubSeq(Stored, max_entries, Len(Stored))
                              ELSE <<>>)
    /\ UNCHANGED <<exists, clock>>
    /\ UNCHANGED <<navVars, events>>

GetSorted(sort_mode, io) ==
    /\ \E r \in {get_sorted_entries(Disk, sort_mode, exists, clock, io)} :
          /\ SetDisk(r.disk)
          /\ last_op' = OpRec("get_sorted", sort_mode, r.ret, FALSE, r.entries)
    /\ UNCHANGED <<exists, clock>>
    /\ UNCHANGED <<navVars, events>>

Cleanup(io) ==
    /\ \E r \in {cleanup_old_entries(Disk, exists, clock, io)} :
          /\ SetDisk(r.disk)
          /\ last_op' = OpRec("cleanup", 0, r.ret, FALSE, <<>>)
    /\ UNCHANGED <<exists, clock>>
    /\ UNCHANGED <<navVars, events>>

Load(io) ==
    /\ \E r \in {load_history_entries(Disk, exists, clock, io)} :
          /\ SetDisk(r.disk)
          /\ last_op' = OpRec("load", io, r.ret, FALSE, r.entries)
    /\ UNCHANGED <<exists, clock>>
    /\ UNCHANGED <<navVars, events>>

\* Time passes.
Tick(d) ==
    /\ clock + d <= LastDay
    /\ clock' = clock + d
    /\ last_op' = OpRec("tick", d, "Ok", FALSE, <<>>)
    /\ UNCHANGED <<bin_file, legacy_file, h_saved, exists>>
    /\ UNCHANGED <<navVars, events>>

\* A path is deleted from the disk behind the program's back.
RemovePath(p) ==
    /\ p \in exists
    /\ exists' = exists \ {p}
    /\ last_op' = OpRec("remove_path", p, "Ok", FALSE, <<>>)
    /\ UNCHANGED <<bin_file, legacy_file, h_saved, clock>>
    /\ UNCHANGED <<navVars, events>>

----------------------------------------------------------------------------
(* The application: one action per event or provider call *)

histVars == <<bin_file, legacy_file, exists, clock, h_saved>>

RECURSIVE SumTasks(_, _)
SumTasks(t, ps) ==
    IF ps = {} THEN 0
    ELSE LET p == CHOOSE q \in ps : TRUE IN t[p] + SumTasks(t, ps \ {p})

StoredOf(disk) ==
    IF disk.bin.present THEN decode_from_slice(disk.bin.data).entries ELSE <<>>

\* The event loop runs until the process exits or a handler's error ends it.
Running == mode \in {"Normal", "History"} /\ events < MaxEvents

NoListing == [some |-> FALSE]

\* The directory listing left for the history mode: it is noted when the
\* history mode is entered and kept until the first event after the return.
Listing(new_mode) ==
    IF mode = "Normal"
    THEN IF new_mode = "History"
         THEN [some |-> TRUE, dir |-> current_dir, files |-> files]
         ELSE NoListing
    ELSE h_listing

\* The state a handler leaves behind becomes the program's state.
Apply(s0) == \E s \in {s0} :
    /\ SumTasks(s.tasks, Paths) <= MaxTasks
    /\ SumFrequency(StoredOf(s.disk)) <= MaxAdds
    /\ mode' = s.mode
    /\ current_dir' = s.current_dir
    /\ files' = s.files
    /\ filtered_files' = s.filtered_files
    /\ selected' = s.selected
    /\ offset' = s.offset
    /\ search_input' = s.search_input
    /\ is_searching' = s.is_searching
    /\ show_hidden_files' = s.show_hidden_files
    /\ dir_positions' = s.dir_positions
    /\ left_height' = s.left_height
    /\ preview' = s.preview
    /\ tasks' = s.tasks
    /\ double_click_state' = s.double_click_state
    /\ h_requested' = s.requested
    /\ h_listing' = Listing(s.mode)
    /\ terminal' = after_event(terminal, s.mode)
    /\ SetDisk(s.disk)
    /\ events' = events + 1
    /\ UNCHANGED <<exists, clock>>

\* An error a handler returns ends the event loop.
Outcome(r) == IF r.ok THEN r.s ELSE [r.s EXCEPT !.mode = "Failed"]

BoolStr(b) == IF b THEN "true" ELSE "false"

ResStr(ok) == IF ok THEN "Ok" ELSE "Err"

\* The state after AppState::new and the first load_data, with a history
\* file that earlier runs have written.
StartState(dir, height) ==
    [mode |-> "Normal", current_dir |-> dir, files |-> <<>>,
     filtered_files |-> <<>>, selected |-> NoSel, offset |-> 0,
     search_input |-> <<>>, is_searching |-> FALSE, show_hidden_files |-> FALSE,
     dir_positions |-> [d \in Dirs |-> NoSel],
     left_height |-> height, preview |-> DefaultPreview,
     tasks |-> [p \in Paths |-> 0],
     double_click_state |-> [since_last_click |-> LongAgo, last_click_position |-> NoSel,
                             last_clicked_index |-> NoSel],
     requested |-> NoPath,
     disk |-> [bin |-> [present |-> TRUE,
                        data |-> encode_to_vec(<<HistoryEntry_new(3, 0), HistoryEntry_new(2, 0)>>)],
               legacy |-> NoLegacy,
               saved |-> [some |-> TRUE,
                          entries |-> <<HistoryEntry_new(3, 0), HistoryEntry_new(2, 0)>>]]]

\* The directory the program is started in
StartDirs == {1}

Init ==
    /\ exists = Paths
    /\ clock = 0
    /\ events = 0
    /\ last_op = OpRec("init", "", "Ok", FALSE, <<>>)
    /\ \E dir \in StartDirs, height \in Heights :
         \E s \in {FileList_load_data(StartState(dir, height), Paths, [read |-> TRUE, write |-> TRUE]).s} :
            /\ mode = s.mode
            /\ current_dir = s.current_dir
            /\ files = s.files
            /\ filtered_files = s.filtered_files
            /\ selected = s.selected
            /\ offset = s.offset
            /\ search_input = s.search_input
            /\ is_searching = s.is_searching
            /\ show_hidden_files = s.show_hidden_files
            /\ dir_positions = s.dir_positions
            /\ left_height = s.left_height
            /\ preview = s.preview
            /\ tasks = s.tasks
            /\ double_click_state = s.double_click_state
            /\ h_requested = s.requested
            /\ h_listing = NoListing
            /\ terminal = InLoop
            /\ bin_file = s.disk.bin
            /\ legacy_file = s.disk.legacy
            /\ h_saved = s.disk.saved

NavigateUp ==
    /\ Running
    /\ \E r \in {navigate_up(St, exists)} :
          /\ Apply(r.s)
          /\ last_op' = OpRec("navigate_up", "", BoolStr(r.ret), FALSE, <<>>)

NavigateDown ==
    /\ Running
    /\ \E r \in {navigate_down(St, exists)} :
          /\ Apply(r.s)
          /\ last_op' = OpRec("navigate_down", "", BoolStr(r.ret), FALSE, <<>>)

NavigateHalfPageUp ==
    /\ Running
    /\ \E r \in {navigate_half_page_up(St, exists)} :
          /\ Apply(r.s)
          /\ last_op' = OpRec("navigate_half_page_up", "", BoolStr(r.ret), FALSE, <<>>)

NavigateHalfPageDown ==
    /\ Running
    /\ \E r \in {navigate_half_page_down(St, exists)} :
          /\ Apply(r.s)
          /\ last_op' = OpRec("navigate_half_page_down", "", BoolStr(r.ret), FALSE, <<>>)

\* The keys whose handlers may read or write the disk
DiskKeys == {"Esc", "Enter", "v", "Right", "Left", "l", "h"}

\* The outcomes of the disk operations of a handler that may reach the disk
IOFor(reaches_disk) == IF reaches_disk THEN IO ELSE {[read |-> TRUE, write |-> TRUE]}

\* The keys that last_op names
RecordedKeys == {"Up", "Down", "Enter", "Esc"}

\* The keys that handle_navigation_keys hands to navigate_into_directory
IntoKey(key) == key = "Right" \/ (key = "l" /\ ~is_searching)

\* The keys that handle_navigation_keys hands to navigate_to_parent
ParentKey(key) == key = "Left" \/ (key = "h" /\ ~is_searching)

\* What last_op tells of a key: its name for the recorded keys, "Into" for a
\* key that enters the selected directory, "Parent" for a key that goes to
\* the parent directory, and for a key that edits the
\* search text whether it typed a character or deleted one.
KeyArg(key) ==
    IF key \in RecordedKeys THEN key
    ELSE IF IntoKey(key) THEN "Into"
    ELSE IF ParentKey(key) THEN "Parent"
    ELSE IF is_searching /\ key \in CharKeys THEN "Char"
    ELSE IF is_searching /\ key = "Backspace" THEN "Backspace"
    ELSE ""

\* For a typed character, the filtered list it was typed on; for a key that
\* enters a directory of the listing, the directory and the row it was
\* pressed on; for a key that
\* enters a directory of the history, and for Esc that leaves the history,
\* how the disk answered; for Enter on a
\* selected item, how the disk answered and the path that handle_exit sets
\* as QS_SELECT_PATH and prints to standard error
KeyOut(key, io) ==
    IF IntoKey(key) THEN (IF mode = "History" THEN <<io>> ELSE <<current_dir, selected>>)
    ELSE IF key = "Enter"
    THEN (IF ExitFile(St, exists).some
          THEN <<io, select_path(St, ExitFile(St, exists))>> ELSE <<>>)
    ELSE IF key = "Esc"
    THEN (IF mode = "History" /\ ~is_searching THEN <<io>> ELSE <<>>)
    ELSE IF is_searching /\ key \in CharKeys THEN <<filtered_files>>
    ELSE <<>>

\* A key event: handle_key_event of core/events.rs.  While searching, the
\* characters typed are those of SearchChars and "j".
Key(key, io) ==
    /\ Running
    /\ ~(is_searching /\ key \in {"/", "v", "k", "l", "h"})
    /\ Len(search_input) < MaxSearchLen \/ ~is_searching \/ key \notin CharKeys
    /\ \E r \in {events_handle_key_event(St, key, exists, clock, io)} :
          /\ Apply(Outcome(r))
          /\ last_op' = OpRec("key", KeyArg(key), ResStr(r.ok), FALSE, KeyOut(key, io))

\* The columns of the list panel that are clicked, and the milliseconds
\* between a left click and the left click before it.
ClickColumns == {0, 1}
ClickGaps == {75, 150, 200}

\* A left click on a point of the list panel, gap milliseconds after the
\* left click before it.
LeftClick(column, visible_row, gap, io) ==
    /\ Running
    /\ left_height > 0
    /\ visible_row <= left_height
    /\ \E r \in {events_handle_left_click(Elapse(St, gap), <<column, visible_row>>,
                                          exists, clock, io)} :
          /\ Apply(Outcome(r))
          /\ last_op' = OpRec("left_click", gap, ResStr(r.ok), FALSE, <<>>)

\* The rows the list panel starts at, and the builds of the program
PanelRows == {0, 3}
Builds == BOOLEAN

\* A left click on the row mouse_row of the screen, with the list panel
\* starting at row left_area_y (its top border): handle_mouse_event of
\* core/events.rs, where the row is computed on u16.  A panic ends the
\* process where it stands.
LeftClickRow(column, mouse_row, left_area_y, overflow_checks) ==
    /\ Running
    /\ left_height > 0
    /\ is_in_left_area(mouse_row, left_area_y, left_height + 2)
    /\ \E v \in {visible_row_of(mouse_row, left_area_y, overflow_checks)} :
          IF v.panic
          THEN /\ Apply([St EXCEPT !.mode = "Panicked"])
               /\ last_op' = OpRec("left_click_row", mouse_row - left_area_y, "panic", FALSE, <<>>)
          ELSE \E r \in {events_handle_left_click(St, <<column, v.value>>, exists, clock,
                                                  [read |-> TRUE, write |-> TRUE])} :
                  /\ Apply(Outcome(r))
                  /\ last_op' = OpRec("left_click_row", mouse_row - left_area_y,
                                      ResStr(r.ok), FALSE, <<>>)

RightClick(io) ==
    /\ Running
    /\ \E r \in {events_handle_right_click(St, exists, clock, io)} :
          /\ Apply(Outcome(r))
          /\ last_op' = OpRec("right_click", "", ResStr(r.ok), FALSE, <<>>)

\* The mouse wheel, over the list panel or over the preview panel.
Scroll(is_scroll_up, in_left_panel) ==
    /\ Running
    /\ left_height > 0
    /\ \E r \in {handle_scroll_navigation(St, is_scroll_up, in_left_panel, exists)} :
          /\ Apply(r.s)
          /\ last_op' = OpRec("scroll", "", "Ok", FALSE, <<>>)

ToggleHiddenFiles ==
    /\ Running
    /\ Apply(toggle_hidden_files(St))
    /\ last_op' = OpRec("toggle_hidden_files", "", "Ok", FALSE, <<>>)

\* A background preview task runs to its end and writes what it generated.
TaskComplete(p) ==
    /\ tasks[p] > 0
    /\ tasks' = [tasks EXCEPT ![p] = @ - 1]
    /\ preview' = PreviewTaskBody(preview, p, exists)
    /\ last_op' = OpRec("task_complete", "", "Ok", FALSE, <<>>)
    /\ UNCHANGED <<mode, current_dir, files, filtered_files, selected, offset,
                   search_input, is_searching, show_hidden_files, dir_positions,
                   left_height, double_click_state, h_requested, h_listing, terminal>>
    /\ UNCHANGED <<histVars, events>>

\* A background preview task gives up: AppState::new() failed in the task.
TaskAbort(p) ==
    /\ tasks[p] > 0
    /\ tasks' = [tasks EXCEPT ![p] = @ - 1]
    /\ last_op' = OpRec("task_abort", "", "Ok", FALSE, <<>>)
    /\ UNCHANGED <<mode, current_dir, files, filtered_files, selected, offset,
                   search_input, is_searching, show_hidden_files, dir_positions,
                   left_height, preview, double_click_state, h_requested, h_listing, terminal>>
    /\ UNCHANGED <<histVars, events>>

Next ==
    \/ NavigateUp
    \/ NavigateDown
    \/ NavigateHalfPageUp
    \/ NavigateHalfPageDown
    \/ \E key \in Keys : \E io \in IOFor(key \in DiskKeys) : Key(key, io)
    \/ \E column \in ClickColumns, visible_row \in 0..MaxRow, gap \in ClickGaps :
          \E io \in IOFor(gap <= DOUBLE_CLICK_INTERVAL_MS) :
              LeftClick(column, visible_row, gap, io)
    \/ \E left_area_y \in PanelRows, overflow_checks \in Builds :
          LeftClickRow(0, left_area_y, left_area_y, overflow_checks)
    \/ \E io \in IO : RightClick(io)
    \/ \E is_scroll_up \in BOOLEAN, in_left_panel \in BOOLEAN :
          Scroll(is_scroll_up, in_left_panel)
    \/ ToggleHiddenFiles
    \/ \E p \in Paths : TaskComplete(p)
    \/ \E p \in Paths : TaskAbort(p)

Spec == Init /\ [][Next]_vars

----------------------------------------------------------------------------
(* Properties of the navigation and of the preview pipeline, checked under
   Spec *)

NoTaskInFlight == \A p \in Paths : tasks[p] = 0

\* C1: once no preview task is in flight any more, the PreviewState holds
\* the content of the item requested last, in whatever order the tasks of
\* earlier requests completed.
C1_StalenessGuard ==
    (NoTaskInFlight /\ h_requested # NoPath) => preview.content.path = h_requested

\* C2: the selection is none or an index into the filtered list.
C2_SelectionInRange ==
    selected = NoSel \/ (0 <= selected /\ selected < Len(filtered_files))

\* A directory change has restored the position saved for the directory.
C2_Witness ==
    /\ events > 0
    /\ mode = "Normal"
    /\ selected # NoSel
    /\ selected = dir_positions[current_dir]
    /\ preview = DefaultPreview

\* navigate_up has nothing above the selection to go to
AtTop == selected = 0 \/ (selected = NoSel /\ filtered_files = <<>>)

\* navigate_down has nothing below the selection to go to
AtBottom == filtered_files = <<>> \/ selected = Len(filtered_files) - 1

\* C3: navigate_up at index 0, navigate_down at the last index and either of
\* them on an empty list return false and leave the selection, the scroll
\* offset of the list, the PreviewState and the preview tasks as they are,
\* also when the input dispatcher handles the Up or the Down key there.
C3_BoundaryNoOp ==
    [][(\/ last_op'.op = "navigate_up" /\ AtTop
        \/ last_op'.op = "navigate_down" /\ AtBottom
        \/ last_op'.op = "key" /\ last_op'.arg = "Up" /\ AtTop
        \/ last_op'.op = "key" /\ last_op'.arg = "Down" /\ AtBottom)
       => /\ last_op'.op \in {"navigate_up", "navigate_down"} => last_op'.ret = "false"
          /\ selected' = selected
          /\ offset' = offset
          /\ preview' = preview
          /\ tasks' = tasks]_vars

\* C4: once the PreviewState holds the final content of the item requested
\* last, it keeps that content as long as there is no new request and no
\* clear: no task of an older request replaces it.
C4_NewestRequestWins ==
    [][(/\ h_requested # NoPath
        /\ h_requested' = h_requested
        /\ \A p \in Paths : tasks'[p] <= tasks[p]
        /\ preview.content = [kind |-> "generated", path |-> h_requested])
       => preview'.content = preview.content]_vars

\* C5: after clear_preview, also the one at the end of a directory change,
\* the PreviewState keeps the cleared content until the next request: no task
\* started before the clear writes into it.
C5_NoWriteAfterClear ==
    [][(/\ h_requested = NoPath
        /\ h_requested' = NoPath
        /\ preview.content.kind = "No file selected")
       => preview'.content.kind = "No file selected"]_vars

----------------------------------------------------------------------------
(* Properties of entering a directory, checked under Spec *)

\* The selected item, and whether it is a directory
Selected == get_selected_item(St)

SelectedIsDirectory == Selected.some /\ is_directory(Selected.item, exists)

\* The step is a key that enters the selected directory.
IntoStep == last_op'.op = "key" /\ last_op'.arg = "Into"

\* C21: in the history mode, when the key that enters the selected directory
\* is handled and the write of the history fails, the current directory is
\* still set to the selected directory, the mode is switched to Normal and
\* the handler returns Ok.
C21_SaveFailureKeepsNavigation ==
    [][(IntoStep /\ mode = "History" /\ SelectedIsDirectory
           /\ last_op'.out[1].read /\ ~last_op'.out[1].write)
       => /\ last_op'.ret = "Ok"
          /\ current_dir' = Selected.item.path
          /\ mode' = "Normal"]_vars

\* C22: handling a key event in the directory listing never returns an
\* error: the keys Up and Down return Ok on every list and selection, and so
\* does the key that enters the selected directory, whatever the file system
\* answers when the directory is read.
C22_KeyNeverFails ==
    [][(last_op'.op = "key" /\ mode = "Normal" /\ last_op'.arg \in {"Up", "Down", "Into"})
       => last_op'.ret = "Ok"]_vars

----------------------------------------------------------------------------
(* Properties of the first navigation in a listing, checked under Spec *)

\* The step is navigate_down in the directory listing with nothing selected.
FirstDownStep ==
    last_op'.op = "navigate_down" /\ mode = "Normal" /\ selected = NoSel

\* navigate_down has returned true, an item is selected and the preview has
\* a title.
FirstDownDone ==
    /\ last_op'.ret = "true"
    /\ selected' \in 0..(Len(filtered_files') - 1)
    /\ preview'.title # <<>>

----------------------------------------------------------------------------
(* Properties of the left click, checked under Spec *)

\* The tracker holds the click that was just handled.
Tracked(tracker) == tracker.since_last_click = 0

\* The item at index i of the list on screen
ItemAt(i) == get_selected_item(select(St, i)).item

\* What the double-click action leaves behind: a directory of the listing is
\* entered (or entering it failed), an entry of the history ends the history
\* mode.  A double click on a file of the listing does nothing.
DoubleClickActed(item) ==
    IF mode = "Normal"
    THEN is_directory(item, exists)
            => \/ mode' = "Failed"
               \/ current_dir' = item.path /\ preview' = DefaultPreview
    ELSE mode' # mode

\* What a single click leaves behind: the item is selected and previewed.
SingleClickActed(item) ==
    /\ mode' = mode
    /\ current_dir' = current_dir
    /\ files' = files
    /\ selected' = double_click_state'.last_clicked_index
    /\ preview'.content = [kind |-> "generated", path |-> item.path]

\* C12: of two left clicks handled one after the other, both on a row of the
\* list, the second triggers the double-click action when it resolves to the
\* same index at the same position at most 150 ms after the first; it is a
\* single click when it comes 200 ms after the first, and when the index or
\* the position differs.
C12_DoubleClick ==
    [][(/\ last_op.op = "left_click" /\ Tracked(double_click_state)
        /\ last_op'.op = "left_click" /\ Tracked(double_click_state'))
       => LET same == /\ double_click_state'.last_clicked_index
                            = double_click_state.last_clicked_index
                      /\ double_click_state'.last_click_position
                            = double_click_state.last_click_position
              item == ItemAt(double_click_state'.last_clicked_index)
          IN /\ (same /\ last_op'.arg <= 150) => DoubleClickActed(item)
             /\ (~same \/ last_op'.arg = 200) => SingleClickActed(item)]_vars

\* A double click has entered the directory ab.
C12_Witness ==
    /\ last_op.op = "left_click" /\ last_op.arg = 150
    /\ Tracked(double_click_state)
    /\ current_dir = 2
    /\ preview = DefaultPreview

\* C13: every left click updates the double-click tracker, whatever the
\* click did: after it the tracker holds the time of this click.
C13_TrackerUpdatedOnEveryClick ==
    [][last_op'.op = "left_click" => Tracked(double_click_state')]_vars

----------------------------------------------------------------------------
(* Properties of the list, checked under Spec *)

\* The names of the rows of the list, from the first row to the last
VisibleNames == [i \in 1..Len(filtered_files) |-> files[filtered_files[i] + 1].name]

\* C15: a character typed into the search text and then deleted with one
\* backspace gives back the filtered list the character was typed on, and
\* the search text of before.
C15_TypeThenBackspaceRestores ==
    [][(/\ last_op.op = "key" /\ last_op.arg = "Char"
        /\ last_op'.op = "key" /\ last_op'.arg = "Backspace")
       => /\ filtered_files' = last_op.out[1]
          /\ search_input' = SubSeq(search_input, 1, Len(search_input) - 1)]_vars

\* "B" was typed after "a" and deleted again: the list is the one filtered
\* by "a", the directories Ba and ab.
C15_Witness ==
    /\ last_op.op = "key" /\ last_op.arg = "Backspace"
    /\ search_input = <<"a">>
    /\ Len(filtered_files) = 2

\* The indices, in item order, of the items that satisfy Test
MatchingIndices(Test(_)) ==
    LET RECURSIVE From(_)
        From(i) == IF i >= Len(files) THEN <<>>
                   ELSE (IF Test(files[i + 1]) THEN <<i>> ELSE <<>>) \o From(i + 1)
    IN From(0)

\* The display name of item contains the search text, whatever the case
\* of the letters
NameMatches(item) ==
    contains(to_lowercase(get_display_name(item)), to_lowercase(search_input))

\* An item the list shows at all: an entry of the history, or a file whose
\* name does not start with a dot unless hidden files are shown.
Shown(item) ==
    \/ item.tag # "File"
    \/ show_hidden_files
    \/ item.name = <<>>
    \/ item.name[1] # "."

\* The step is a change of the search text.
SearchTextEdited == last_op'.op = "key" /\ last_op'.arg \in {"Char", "Backspace"}

\* C16 as stated: after every change of the search text, filtered holds, in
\* item order, the indices of all items whose display name contains the
\* search text as a case-insensitive substring.
C16_FilteredIsAllMatching ==
    [][SearchTextEdited
       => filtered_files' = MatchingIndices(NameMatches)']_vars

\* C16 amended: after every change of the search text, filtered holds, in
\* item order, the indices of all shown items (history entries, and files
\* whose name does not start with a dot unless hidden files are shown) whose
\* display name contains the search text as a case-insensitive substring;
\* every index is less than the number of items.
C16_FilteredIsShownMatching ==
    [][SearchTextEdited
       => /\ filtered_files' = MatchingIndices(LAMBDA item : Shown(item) /\ NameMatches(item))'
          /\ \A k \in 1..Len(filtered_files') : filtered_files'[k] < Len(files')]_vars

\* "Ba" has been typed: of the five items only the directory Ba is listed.
C16_Witness ==
    /\ last_op.op = "key" /\ last_op.arg = "Char"
    /\ search_input = <<"B", "a">>
    /\ Len(files) = 5
    /\ filtered_files = <<1>>

\* C17: back in the directory listing after a switch to the history, with
\* the current directory still the one the history was entered from, the
\* search text is empty and the items are those of before the switch.
C17_ListingRestoredAfterHistory ==
    [][(/\ mode = "History" /\ mode' = "Normal"
        /\ h_listing.some /\ current_dir' = h_listing.dir)
       => /\ search_input' = <<>>
          /\ ~is_searching'
          /\ files' = h_listing.files]_vars

\* The program is back in the listing of / with its five items.
C17_Witness ==
    /\ mode = "Normal" /\ h_listing.some
    /\ current_dir = h_listing.dir
    /\ Len(files) = 5
    /\ files = h_listing.files
    /\ search_input = <<>>

\* C14: after the load of the directory with the sub-directories Ba and ab
\* and the file b the rows are Ba, ab, b and nothing is selected; every
\* navigate_down moves the selection one row down and leaves it on the last
\* row when it is there, so that the k-th navigate_down after the load
\* leaves it on row min(k, n) - 1 of the n rows.
C14_NavigateDownWalksToLast ==
    [][last_op'.op = "navigate_down"
       => /\ last_op.op = "init"
                => /\ selected = NoSel
                   /\ VisibleNames = << <<"B", "a">>, <<"a", "b">>, <<"b">> >>
          /\ filtered_files' = filtered_files /\ files' = files
          /\ selected' = Min(selected + 1, Len(filtered_files) - 1)]_vars

\* navigate_down has been called on the last row, the file b, and left the
\* selection there.
C14_Witness ==
    /\ last_op.op = "navigate_down" /\ last_op.ret = "false"
    /\ current_dir = 1 /\ Len(filtered_files) = 3
    /\ selected = 2
    /\ get_selected_item(St).item.path = 4

----------------------------------------------------------------------------
(* The specification of the history store on its own *)

\* The application around the store has just started and no event arrives.
NavIdle ==
    LET s == StartState(1, 0)
    IN /\ mode = s.mode
       /\ current_dir = s.current_dir
       /\ files = s.files
       /\ filtered_files = s.filtered_files
       /\ selected = s.selected
       /\ offset = s.offset
       /\ search_input = s.search_input
       /\ is_searching = s.is_searching
       /\ show_hidden_files = s.show_hidden_files
       /\ dir_positions = s.dir_positions
       /\ left_height = s.left_height
       /\ preview = s.preview
       /\ tasks = s.tasks
       /\ double_click_state = s.double_click_state
       /\ h_requested = s.requested
       /\ h_listing = NoListing
       /\ terminal = NotStarted

InitHistory == HistInit /\ NavIdle

NextHistory ==
    \/ \E p \in HistPaths, io \in IO : Add(p, io)
    \/ \E sort_mode \in SortModes, io \in IO : GetSorted(sort_mode, io)
    \/ \E io \in IO : Cleanup(io)
    \/ \E io \in IO : Load(io)
    \/ \E d \in TickDays : Tick(d)
    \/ \E p \in RemovablePaths : RemovePath(p)

SpecHistory == InitHistory /\ [][NextHistory]_vars

----------------------------------------------------------------------------
(* Properties of the history store, checked under SpecHistory *)

\* The entries of a list that have the path p
EntriesOf(entries, p) == SelectSeq(entries, LAMBDA e : e.path = p)

\* How often e occurs in seq
Count(seq, e) == Cardinality({i \in 1..Len(seq) : seq[i] = e})

\* a and b hold the same entries, each as often
IsPermutation(a, b) ==
    /\ Len(a) = Len(b)
    /\ \A i \in 1..Len(a) : Count(a, a[i]) = Count(b, a[i])

\* The (path, frequency) pairs of a list
PathFrequencies(entries) ==
    {<<entries[i].path, entries[i].frequency>> : i \in 1..Len(entries)}

\* C6: when add(p) has stored a path p that was not stored and succeeded, and
\* the next operation is add(p) again and succeeds, the store holds exactly
\* one entry with path p, and its frequency is 2.
C6_SecondAddIncrements ==
    [][(/\ last_op.op = "add" /\ last_op.ret = "Ok" /\ last_op.was_new
        /\ last_op'.op = "add" /\ last_op'.ret = "Ok"
        /\ last_op'.arg = last_op.arg
        /\ ~last_op'.was_new)
       => /\ Len(EntriesOf(Stored', last_op.arg)) = 1
          /\ EntriesOf(Stored', last_op.arg)[1].frequency = 2]_vars

C6_Witness ==
    /\ last_op.op = "add" /\ last_op.ret = "Ok" /\ ~last_op.was_new
    /\ Len(Stored) = 1
    /\ Stored[1].path = last_op.arg
    /\ Stored[1].frequency = 2

\* C7: in every state the add, cleanup, load and migration operations can
\* reach, no two stored entries have the same path.
C7_UniquePaths ==
    \A i, j \in 1..Len(Stored) : i # j => Stored[i].path # Stored[j].path

\* C8: when the store holds max_entries entries and a path that is not stored
\* is added, the store holds max_entries entries afterwards, the new entry
\* (frequency 1) is the first, and the others are the old entries in their
\* order without the last one.
C8_FullStoreDropsLast ==
    [][(/\ last_op'.op = "add" /\ last_op'.ret = "Ok" /\ last_op'.was_new
        /\ Len(Stored) = max_entries
        /\ EntriesOf(Stored, last_op'.arg) = <<>>)
       => /\ Len(Stored') = max_entries
          /\ Stored'[1].path = last_op'.arg
          /\ Stored'[1].frequency = 1
          /\ \A i \in 2..max_entries : Stored'[i] = Stored[i - 1]]_vars

C8_Witness ==
    /\ last_op.op = "add" /\ last_op.ret = "Ok" /\ last_op.was_new
    /\ Len(last_op.out) = 1
    /\ Len(Stored) = max_entries
    /\ Stored[1].path = last_op.arg
    /\ \A i \in 1..Len(Stored) : Stored[i].path # last_op.out[1].path

\* C9: when a list has been saved and every path in it exists, what
\* get_sorted_entries then loads and returns has, in each of the four sort
\* modes, the same set of (path, frequency) pairs as the list saved.
C9_SaveLoadRoundTrip ==
    (/\ last_op.op = "get_sorted" /\ last_op.ret = "Ok"
     /\ h_saved.some
     /\ \A i \in 1..Len(h_saved.entries) : h_saved.entries[i].path \in exists)
    => PathFrequencies(last_op.out) = PathFrequencies(h_saved.entries)

C9_Witness ==
    /\ last_op.op = "get_sorted" /\ last_op.ret = "Ok"
    /\ last_op.arg = "Alphabetical"
    /\ h_saved.some
    /\ Len(h_saved.entries) = 2
    /\ \A i \in 1..Len(h_saved.entries) : h_saved.entries[i].path \in exists
    /\ h_saved.entries[1].frequency = 2
    /\ last_op.out # h_saved.entries

\* The order each sort mode asks for, of an entry a that comes before b
InOrder(sort_mode, now, a, b) ==
    CASE sort_mode = "Frequency" -> a.frequency >= b.frequency
      [] sort_mode = "Recent" -> a.last_accessed >= b.last_accessed
      [] sort_mode = "FrequencyRecent" ->
            calculate_score(a, time_decay_days, now) >= calculate_score(b, time_decay_days, now)
      [] sort_mode = "Alphabetical" -> ~StrLess(file_name(b.path), file_name(a.path))

\* C10: what get_sorted_entries(mode) returns is the persisted entries whose
\* path exists, each once per stored entry, in the order of the mode's key:
\* frequency descending, last access descending, score descending, or the
\* final path component ascending.
C10_SortedExisting ==
    (last_op.op = "get_sorted" /\ last_op.ret = "Ok")
    => /\ IsPermutation(last_op.out, SelectSeq(Stored, LAMBDA e : e.path \in exists))
       /\ \A i, j \in 1..Len(last_op.out) :
             i < j => InOrder(last_op.arg, clock, last_op.out[i], last_op.out[j])

\* add(x), add(y), add(x), then get_sorted(Frequency): x with frequency 2
\* comes before y with frequency 1, although y was stored behind x.
C10_Witness ==
    /\ last_op.op = "get_sorted" /\ last_op.ret = "Ok" /\ last_op.arg = "Frequency"
    /\ Len(last_op.out) = 2
    /\ last_op.out[1].frequency = 2
    /\ last_op.out[2].frequency = 1
    /\ Len(Stored) = 2
    /\ Stored[1] = last_op.out[1]

----------------------------------------------------------------------------
(* The score of an entry on its own: src/utils.rs *)

\* The days on which the scored entry was last accessed
ScoreLastAccessed == {0, 2}

InitScore ==
    /\ NavIdle
    /\ bin_file = NoFile
    /\ legacy_file = NoLegacy
    /\ exists = Paths
    /\ clock = 0
    /\ events = 0
    /\ h_saved = [some |-> FALSE, entries |-> <<>>]
    /\ last_op = OpRec("init", "", "Ok", FALSE, <<>>)

\* HistoryEntry::calculate_score of an entry with the given frequency and day
\* of last access, called on day now with the configured time_decay_days.
Score(frequency, last_accessed, now) ==
    /\ clock' = now
    /\ \E entry \in {[HistoryEntry_new(1, last_accessed) EXCEPT !.frequency = frequency]} :
          last_op' = OpRec("calculate_score", entry, "Ok", FALSE,
                           <<calculate_score(entry, time_decay_days, now)>>)
    /\ UNCHANGED <<navVars, bin_file, legacy_file, exists, events, h_saved>>

NextScore ==
    \E frequency \in 1..MaxFrequency, last_accessed \in ScoreLastAccessed, now \in 0..MaxNow :
        Score(frequency, last_accessed, now)

SpecScore == InitScore /\ [][NextScore]_vars

\* The days elapsed since the last access of the entry scored in last_op
ElapsedDays(op, now) == now - op.arg.last_accessed

\* C11: of two scores computed one after the other, the one of the entry
\* with the higher frequency is not lower when the days elapsed since the
\* last access are the same, and the one with more days elapsed is not higher
\* when the frequencies are the same.
C11_ScoreMonotone ==
    [][(last_op.op = "calculate_score" /\ last_op'.op = "calculate_score")
       => /\ (/\ ElapsedDays(last_op', clock') = ElapsedDays(last_op, clock)
              /\ last_op'.arg.frequency >= last_op.arg.frequency)
             => last_op'.out[1] >= last_op.out[1]
          /\ (/\ last_op'.arg.frequency = last_op.arg.frequency
              /\ ElapsedDays(last_op', clock') >= ElapsedDays(last_op, clock))
             => last_op'.out[1] <= last_op.out[1]]_vars

\* A score of an entry of frequency 2, half of the decay period after its
\* last access: 2 * 0.5, times 10 * time_decay_days.
C11_Witness ==
    /\ last_op.op = "calculate_score"
    /\ last_op.arg.frequency = 2
    /\ 2 * ElapsedDays(last_op, clock) = time_decay_days
    /\ last_op.out[1] = 10 * time_decay_days

----------------------------------------------------------------------------
(* The choice of the preview generator on its own:
   src/services/preview/preview_generator.rs, text_generator.rs,
   image_generator.rs, pdf_generator.rs, directory_generator.rs, src/utils.rs *)

MaxFileLen == 2

\* TextPreviewGenerator: const MAX_PREVIEW_SIZE
MAX_PREVIEW_SIZE == 5 * 1024 * 1024

\* The extensions of the previewed paths ("" for none), and their lower case
Extensions == {"", "txt", "png", "PNG", "svg", "pdf", "Pdf"}

ext_to_lowercase(ext) ==
    CASE ext = "PNG" -> "png" [] ext = "Pdf" -> "pdf" [] OTHER -> ext

\* FileItem::is_image
is_image(file) ==
    /\ ~file.is_dir
    /\ ext_to_lowercase(file.extension) \in
          {"jpg", "jpeg", "png", "gif", "bmp", "webp", "tiff", "tif", "svg", "ico", "avif"}

\* FileItem::is_pdf
is_pdf(file) == ~file.is_dir /\ ext_to_lowercase(file.extension) = "pdf"

\* fs::read_to_string(&file.path) is Ok: the file is there, may be read and
\* holds valid UTF-8.
read_to_string_ok(file) ==
    file.present /\ ~file.is_dir /\ file.readable /\ file.valid_utf8

\* fs::metadata(&file.path) is Ok
metadata_ok(file) == file.present

\* The generators generate_preview_content tries with the Text generator
\* ahead of the Image and the Pdf generator
generators_text_first == <<"Directory", "Text", "Image", "Pdf">>

\* generate_preview_content: let generators = vec![...]
generators == <<"Directory", "Image", "Pdf", "Text">>

\* PreviewGeneratorType::can_handle
can_handle(generator, file) ==
    CASE generator = "Directory" -> file.is_dir
      [] generator = "Image" -> is_image(file)
      [] generator = "Pdf" -> is_pdf(file)
      [] generator = "Text" -> read_to_string_ok(file)
      [] generator = "Binary" -> TRUE

\* What a generator returns
Generated(generator, lines) == [generator |-> generator, lines |-> lines]

\* TextPreviewGenerator::generate_preview: the lines ahead of the text
Text_generate_preview(file) ==
    IF ~metadata_ok(file)
    THEN Generated("Text", <<"Error reading file metadata">>)
    ELSE IF file.len > MAX_PREVIEW_SIZE
    THEN Generated("Text", <<"Large File", "", <<"Size: bytes", file.len>>>>)
    ELSE IF read_to_string_ok(file)
    THEN Generated("Text", <<<<"Size: bytes, lines", file.len>>>>)
    ELSE Generated("Text", <<"Text Read Error", "", <<"Size: bytes", file.len>>>>)

\* BinaryPreviewGenerator::generate_preview
Binary_generate_preview(file) ==
    IF ~metadata_ok(file)
    THEN Generated("Binary", <<"Error reading file metadata">>)
    ELSE Generated("Binary", <<"Binary File", "", <<"Size: bytes", file.len>>,
                               "Cannot preview binary content", "",
                               "File type: Binary/Unknown">>)

\* PreviewGeneratorType::generate_preview; what the directory, the image and
\* the PDF generator draw is left open.
generate_preview(generator, file) ==
    CASE generator = "Text" -> Text_generate_preview(file)
      [] generator = "Binary" -> Binary_generate_preview(file)
      [] OTHER -> Generated(generator, <<>>)

\* PreviewGenerator::generate_preview_content: the first generator that can
\* handle the file generates, the binary generator if none can.
PreviewGenerator_generate_preview_content(file) ==
    LET RECURSIVE Try(_)
        Try(i) == IF i > Len(generators) THEN generate_preview("Binary", file)
                  ELSE IF can_handle(generators[i], file)
                       THEN generate_preview(generators[i], file)
                       ELSE Try(i + 1)
    IN Try(1)

\* The files that are previewed
PreviewFiles ==
    [is_dir : BOOLEAN, extension : Extensions, present : BOOLEAN,
     readable : BOOLEAN, valid_utf8 : BOOLEAN, len : 0..MaxFileLen \cup {MAX_PREVIEW_SIZE + 1}]

\* generate_preview_content is called for a file.
GeneratePreview(file) ==
    /\ last_op' = OpRec("generate_preview_content", file, "Ok", FALSE,
                        <<PreviewGenerator_generate_preview_content(file)>>)
    /\ UNCHANGED <<navVars, histVars, events>>

NextPreview == \E file \in PreviewFiles : GeneratePreview(file)

SpecPreview == InitScore /\ [][NextPreview]_vars

\* C18: the preview is generated by the first of the directory, image, PDF
\* and text generator that handles the file and by the binary generator
\* otherwise; for a file on disk that is no directory, image or PDF and
\* cannot be read as valid text it is the binary preview, "Binary File" with
\* the line of the size in bytes.
C18_UnreadableTextIsBinary ==
    last_op.op = "generate_preview_content"
    => LET file == last_op.arg
           result == last_op.out[1]
           image == ~file.is_dir /\ file.extension \in {"png", "PNG", "svg"}
           pdf == ~file.is_dir /\ file.extension \in {"pdf", "Pdf"}
           text == file.present /\ file.readable /\ file.valid_utf8
       IN /\ result.generator =
                IF file.is_dir THEN "Directory"
                ELSE IF image THEN "Image"
                ELSE IF pdf THEN "Pdf"
                ELSE IF text THEN "Text"
                ELSE "Binary"
          /\ (file.present /\ ~file.is_dir /\ ~image /\ ~pdf /\ ~text)
                => /\ result.generator = "Binary"
                   /\ result.lines[1] = "Binary File"
                   /\ result.lines[3] = <<"Size: bytes", file.len>>

\* The preview of a file of two bytes that are not valid UTF-8
C18_Witness ==
    /\ last_op.op = "generate_preview_content"
    /\ last_op.arg.present /\ ~last_op.arg.is_dir /\ last_op.arg.readable
    /\ ~last_op.arg.valid_utf8
    /\ last_op.arg.extension = "txt" /\ last_op.arg.len = 2
    /\ last_op.out[1].lines[1] = "Binary File"

----------------------------------------------------------------------------
(* The terminal around the application: run_interactive_mode,
   setup_terminal, run_app_loop and cleanup_terminal of src/terminal.rs and
   handle_exit of src/core/events.rs.  The calls that restore the terminal
   (disable_raw_mode, LeaveAlternateScreen, show_cursor) are taken to succeed. *)

\* run_interactive_mode is entered: on a terminal setup_terminal is next, and
\* without one /dev/tty is opened; when that fails run_non_interactive
\* prints the directory and the function returns.
Start(is_tty, tty_opens) ==
    /\ terminal.pc = "start"
    /\ terminal' =
          IF is_tty \/ tty_opens
          THEN [terminal EXCEPT !.is_tty = is_tty, !.pc = "enable_raw_mode"]
          ELSE [terminal EXCEPT !.is_tty = FALSE, !.pc = "returned", !.result = "Ok"]
    /\ last_op' = OpRec("start", "", "Ok", FALSE, <<>>)
    /\ UNCHANGED <<appVars, histVars, events>>

\* The calls between the start and the loop, each followed by `?`
setup_step(t, ok) ==
    CASE t.pc = "enable_raw_mode" ->
            IF ok THEN [t EXCEPT !.raw_mode = TRUE, !.pc = "EnterAlternateScreen"]
            ELSE return_err(t)
      [] t.pc = "EnterAlternateScreen" ->
            IF ok THEN [t EXCEPT !.alternate_screen = TRUE, !.pc = "Terminal::new"]
            ELSE return_err(t)
      [] t.pc = "Terminal::new" ->
            IF ok THEN [t EXCEPT !.pc = "AppController::new"] ELSE return_err(t)
      [] t.pc = "AppController::new" ->
            IF ok THEN [t EXCEPT !.pc = "draw"] ELSE return_err(t)

SetupPcs == {"enable_raw_mode", "EnterAlternateScreen", "Terminal::new", "AppController::new"}

\* One call of setup_terminal or AppController::new returns.
Setup(ok) ==
    /\ terminal.pc \in SetupPcs
    /\ terminal' = setup_step(terminal, ok)
    /\ last_op' = OpRec(terminal.pc, "", ResStr(ok), FALSE, <<>>)
    /\ UNCHANGED <<appVars, histVars, events>>

\* What a call of the loop comes to: terminal.draw, event::poll and
\* event::read return Ok or Err, poll with or without an event, read with a
\* key press or another event; handle_key_event returns Ok(true), returns
\* Err, or ends the process in handle_exit.
LoopOutcomes == {"Ok", "Err", "None", "Exit"}

loop_step(t, outcome) ==
    CASE outcome = "Err" -> loop_returns(t, "Err")
      [] t.pc = "draw" -> [t EXCEPT !.pc = "poll"]
      [] t.pc = "poll" -> [t EXCEPT !.pc = IF outcome = "Ok" THEN "read" ELSE "draw"]
      [] t.pc = "read" ->
            [t EXCEPT !.pc = IF outcome = "Ok" THEN "handle_key_event" ELSE "draw"]
      [] t.pc = "handle_key_event" ->
            IF outcome = "Exit" THEN terminal_handle_exit(t) ELSE [t EXCEPT !.pc = "draw"]

LoopPcs == {"draw", "poll", "read", "handle_key_event"}

\* One call of run_app_loop returns.
Loop(outcome) ==
    /\ terminal.pc \in LoopPcs
    /\ outcome = "Exit" => terminal.pc = "handle_key_event"
    /\ outcome = "None" => terminal.pc \in {"poll", "read"}
    /\ terminal.pc = "handle_key_event" => events < MaxEvents
    /\ terminal' = loop_step(terminal, outcome)
    /\ events' = IF terminal.pc = "handle_key_event" THEN events + 1 ELSE events
    /\ last_op' = OpRec(terminal.pc, "", outcome, FALSE, <<>>)
    /\ UNCHANGED <<appVars, histVars>>

\* The lines after run_app_loop
CleanupTerminal ==
    /\ terminal.pc = "cleanup_terminal"
    /\ terminal' = cleanup_terminal(terminal)
    /\ last_op' = OpRec("cleanup_terminal", "", "Ok", FALSE, <<>>)
    /\ UNCHANGED <<appVars, histVars, events>>

NextTerminal ==
    \/ \E is_tty \in BOOLEAN, tty_opens \in BOOLEAN : Start(is_tty, tty_opens)
    \/ \E ok \in BOOLEAN : Setup(ok)
    \/ \E outcome \in LoopOutcomes : Loop(outcome)
    \/ CleanupTerminal

SpecTerminal == InitScore /\ [][NextTerminal]_vars

\* The program has ended: run_interactive_mode has returned to main, or
\* handle_exit has called std::process::exit.
Ended == terminal.pc \in {"returned", "exited"}

\* C19: when the interactive program has ended, raw mode is disabled and the
\* alternate screen is left, on whichever path it ended.
C19_TerminalRestoredAtEnd ==
    Ended => ~terminal.raw_mode /\ ~terminal.alternate_screen

----------------------------------------------------------------------------
(* Properties of loading the history store, checked under SpecHistory *)

\* C20: loading the history store never returns an error: whatever the
\* state of the binary and the legacy file and whether or not they can be
\* read, load_history_entries returns Ok with a list.
C20_LoadNeverFails ==
    last_op.op = "load" => last_op.ret = "Ok"

----------------------------------------------------------------------------
(* The preview state on its own: the operations of GlobalPreviewState
   (src/services/global_preview_state.rs) in any order *)

\* PreviewContent::text of n lines
PreviewContent_text(n) == [kind |-> "text", path |-> NoPath, lines |-> n]

\* The visible heights that the page scrolls are called with
VisibleHeights == {0, 2, 3}

\* An operation of GlobalPreviewState leaves pv behind and returns ret.
PreviewOp(op, arg, pv, ret) ==
    /\ last_op' = OpRec(op, arg, ret, FALSE, <<>>)
    /\ preview' = pv
    /\ UNCHANGED <<mode, current_dir, files, filtered_files, selected, offset,
                   search_input, is_searching, show_hidden_files, dir_positions,
                   left_height, tasks, double_click_state, h_requested, h_listing,
                   terminal, histVars, events>>

UpdatePreview(lines) ==
    \E pv \in {update_preview(preview, <<"Test">>, PreviewContent_text(lines))} :
        PreviewOp("update_preview", lines, pv, "Ok")

ClearPreview ==
    \E pv \in {clear_preview(preview)} : PreviewOp("clear_preview", "", pv, "Ok")

ScrollUp ==
    \E r \in {scroll_up(preview)} : PreviewOp("scroll_up", "", r.pv, BoolStr(r.ret))

ScrollDown ==
    \E r \in {scroll_down(preview, exists)} :
        PreviewOp("scroll_down", "", r.pv, BoolStr(r.ret))

ScrollPageUp(visible_height) ==
    \E r \in {scroll_page_up(preview, visible_height)} :
        PreviewOp("scroll_page_up", visible_height, r.pv, BoolStr(r.ret))

ScrollPageDown(visible_height) ==
    \E r \in {scroll_page_down(preview, visible_height, exists)} :
        PreviewOp("scroll_page_down", visible_height, r.pv, BoolStr(r.ret))

ResetScroll ==
    \E pv \in {reset_scroll(preview)} : PreviewOp("reset_scroll", "", pv, "Ok")

SetScrollOffset(scroll_offset) ==
    \E pv \in {set_scroll_offset(preview, scroll_offset)} :
        PreviewOp("set_scroll_offset", scroll_offset, pv, "Ok")

NextPreviewState ==
    \/ \E lines \in 0..MaxLines : UpdatePreview(lines)
    \/ ClearPreview
    \/ ScrollUp
    \/ ScrollDown
    \/ \E visible_height \in VisibleHeights : ScrollPageUp(visible_height)
    \/ \E visible_height \in VisibleHeights : ScrollPageDown(visible_height)
    \/ ResetScroll
    \/ \E scroll_offset \in 0..MaxOffset : SetScrollOffset(scroll_offset)

SpecPreviewState == InitScore /\ [][NextPreviewState]_vars

\* state.content.len() of the preview state
PreviewLen == content_len(preview.content, exists)

\* C24: in every state of the preview state that the operations of
\* GlobalPreviewState reach, the scroll offset is less than the number of
\* lines of the content, and 0 when the content is empty.
C24_OffsetInsideContent ==
    IF PreviewLen = 0 THEN preview.scroll_offset = 0
    ELSE preview.scroll_offset < PreviewLen

\* C25: scroll_down returns true and adds one to the offset exactly when
\* offset + 1 is less than the number of lines, scroll_up returns true and
\* takes one off exactly when the offset is above 0; otherwise they return
\* false and leave the offset as it is; neither changes the content.
C25_ScrollByOne ==
    [][/\ last_op'.op = "scroll_down" =>
             /\ preview'.content = preview.content /\ preview'.title = preview.title
             /\ IF preview.scroll_offset + 1 < PreviewLen
                THEN last_op'.ret = "true" /\ preview'.scroll_offset = preview.scroll_offset + 1
                ELSE last_op'.ret = "false" /\ preview'.scroll_offset = preview.scroll_offset
       /\ last_op'.op = "scroll_up" =>
             /\ preview'.content = preview.content /\ preview'.title = preview.title
             /\ IF preview.scroll_offset > 0
                THEN last_op'.ret = "true" /\ preview'.scroll_offset = preview.scroll_offset - 1
                ELSE last_op'.ret = "false" /\ preview'.scroll_offset = preview.scroll_offset]_vars

\* scroll_down has returned false on the last of three lines.
C25_Witness ==
    /\ last_op.op = "scroll_down" /\ last_op.ret = "false"
    /\ PreviewLen = 3 /\ preview.scroll_offset = 2

----------------------------------------------------------------------------
(* Properties of the exit with a selection, checked under Spec *)

\* The path handle_exit resolves for the selected item
ResolvedPath ==
    IF is_directory(Selected.item, exists) THEN Selected.item.path ELSE current_dir

\* The frequency the store holds for path p, 0 if it holds none
FrequencyOf(entries, p) ==
    IF EntriesOf(entries, p) = <<>> THEN 0 ELSE EntriesOf(entries, p)[1].frequency

\* The step has recorded a visit of p in the store: p is stored once, with
\* the frequency it had before and one more.
Visited(p) ==
    /\ Len(EntriesOf(Stored', p)) = 1
    /\ FrequencyOf(Stored', p) = FrequencyOf(Stored, p) + 1

\* C26: when Enter is handled with an item selected, the path resolved is the
\* item's path for a directory and the current directory otherwise; it is
\* the path exported and printed, the process exits with the terminal
\* restored, and with a history file that can be read and written the path
\* is recorded in the store.
C26_ExitRecordsResolvedPath ==
    [][(last_op'.op = "key" /\ last_op'.arg = "Enter" /\ Selected.some)
       => /\ mode' = "Exited" /\ terminal'.pc = "exited"
          /\ last_op'.ret = "Ok"
          /\ last_op'.out[2] = ResolvedPath
          /\ (last_op'.out[1].read /\ last_op'.out[1].write) => Visited(ResolvedPath)]_vars

\* Enter on a selected file of directory 1 has ended the program, and the
\* store holds the directory with one visit more.
C26_Witness ==
    /\ last_op.op = "key" /\ last_op.arg = "Enter" /\ mode = "Exited"
    /\ selected # NoSel /\ ~Selected.item.is_dir
    /\ last_op.out = <<[read |-> TRUE, write |-> TRUE], current_dir>>
    /\ FrequencyOf(Stored, current_dir) >= 1

----------------------------------------------------------------------------
(* Properties of the list's scroll offset, checked under Spec *)

\* The navigations of the list and the visible height each passes to
\* update_scroll_offset
ListNavigations ==
    {"navigate_up", "navigate_down", "navigate_half_page_up", "navigate_half_page_down"}

PassedHeight(op) ==
    IF op \in {"navigate_up", "navigate_down"} THEN left_height \div 2 ELSE left_height

\* The keep-selection-visible rule for the selection sel, the offset off and
\* the visible height v
KeepVisible(sel, off, v) ==
    IF sel < off THEN sel
    ELSE IF sel >= off + v THEN sel - (v - 1)
    ELSE off

\* C27: after a navigation of the list that returned true, with a visible
\* height above 0, the offset is the one the keep-selection-visible rule
\* gives for the new selection and the offset before; it is unchanged when
\* the selection is inside the window.
C27_OffsetKeepsSelectionVisible ==
    [][(/\ last_op'.op \in ListNavigations /\ last_op'.ret = "true"
        /\ PassedHeight(last_op'.op) > 0)
       => offset' = KeepVisible(selected', offset, PassedHeight(last_op'.op))]_vars

----------------------------------------------------------------------------
(* Properties of the half-page navigation, checked under Spec *)

\* The rows a half-page navigation moves by
HalfPageStep == Max(1, left_height \div 2)

\* The step has returned false and has left selection and preview alone.
RefusedStep ==
    /\ last_op'.ret = "false"
    /\ selected' = selected
    /\ preview' = preview
    /\ tasks' = tasks

\* C28: navigate_half_page_up and navigate_half_page_down move the selection
\* by max(1, visible_height / 2) rows, clamped to the list, and select the
\* last and the first row when nothing is selected; on an empty list and with
\* the selection already on the first (the last) row they return false,
\* leave the selection alone and request no preview.
C28_HalfPageLikeSingleRow ==
    [][/\ last_op'.op = "navigate_half_page_up" =>
             IF AtTop \/ filtered_files = <<>> THEN RefusedStep
             ELSE /\ last_op'.ret = "true"
                  /\ selected' = IF selected = NoSel THEN Len(filtered_files) - 1
                                 ELSE Max(selected - HalfPageStep, 0)
       /\ last_op'.op = "navigate_half_page_down" =>
             IF AtBottom THEN RefusedStep
             ELSE /\ last_op'.ret = "true"
                  /\ selected' = IF selected = NoSel THEN 0
                                 ELSE Min(selected + HalfPageStep, Len(filtered_files) - 1)]_vars

----------------------------------------------------------------------------
(* Properties of entering something that is no directory, checked under Spec *)

\* C29: in both modes the key that enters the selected directory does nothing
\* when the selected item is not a directory or nothing is selected: the
\* current directory, the item list, the selection and the history store
\* stay as they are and the mode is not switched.
C29_IntoNonDirectoryIsNoOp ==
    [][(IntoStep /\ ~SelectedIsDirectory)
       => /\ last_op'.ret = "Ok"
          /\ current_dir' = current_dir
          /\ files' = files
          /\ filtered_files' = filtered_files
          /\ selected' = selected
          /\ Stored' = Stored
          /\ mode' = mode]_vars

----------------------------------------------------------------------------
(* Properties of entering a directory of the history, checked under Spec *)

\* The step is the key that enters the selected directory, handled in the
\* history mode with a directory selected.
HistoryIntoStep == IntoStep /\ mode = "History" /\ SelectedIsDirectory

\* C30: in the history mode, entering a selected entry whose path is a
\* directory first records the visit in the store (the entry's frequency one
\* more, or a new entry with frequency 1), then sets the current directory to
\* the path and switches to the directory listing: with a disk that answers,
\* the mode is Normal afterwards and the items are the listing of the path;
\* when the visit cannot be written, the current directory is not set.
C30_HistoryIntoRecordsThenSwitches ==
    [][HistoryIntoStep =>
          /\ (last_op'.out[1].read /\ last_op'.out[1].write) =>
                /\ last_op'.ret = "Ok"
                /\ Visited(Selected.item.path)
                /\ current_dir' = Selected.item.path
                /\ mode' = "Normal"
                /\ files' = load_directory(Selected.item.path, exists, last_op'.out[1]).files
          /\ (last_op'.out[1].read /\ ~last_op'.out[1].write) =>
                /\ Stored' = Stored
                /\ current_dir' = current_dir]_vars

\* A directory other than the starting one has been entered from the history,
\* where it had an entry: the store now holds it with frequency 2.
C30_Witness ==
    /\ last_op.op = "key" /\ last_op.arg = "Into"
    /\ last_op.out = <<[read |-> TRUE, write |-> TRUE]>>
    /\ mode = "Normal" /\ current_dir # 1
    /\ FrequencyOf(Stored, current_dir) = 2
    /\ files = load_directory(current_dir, exists, [read |-> TRUE, write |-> TRUE]).files

----------------------------------------------------------------------------
(* Properties of a change of directory in the directory listing, checked
   under Spec *)

\* The step is a key of the directory listing that has changed the directory:
\* the selected directory was entered or the parent was gone to, and
\* on_directory_changed has returned Ok.
DirectoryChangedStep ==
    /\ last_op'.op = "key" /\ mode = "Normal" /\ last_op'.ret = "Ok"
    /\ \/ last_op'.arg = "Into" /\ SelectedIsDirectory
       \/ last_op'.arg = "Parent" /\ FsTable[current_dir].parent # NoPath

\* The index remembered for the directory the step has ended in
Remembered == dir_positions'[current_dir']

\* C31: after on_directory_changed the search text is empty and the search
\* is not being typed, the items are the listing of the new directory, the
\* selection is the index remembered for it, no further than the last shown
\* item (none when nothing is shown or nothing was remembered), and the
\* preview is the default placeholder.
C31_DirectoryChangedState ==
    [][DirectoryChangedStep =>
          /\ search_input' = <<>> /\ ~is_searching'
          /\ files' = load_directory(current_dir', exists, [read |-> TRUE, write |-> TRUE]).files
          /\ selected' = IF Remembered = NoSel \/ filtered_files' = <<>> THEN NoSel
                         ELSE Min(Remembered, Len(filtered_files') - 1)
          /\ preview' = DefaultPreview]_vars

\* The parent has been gone back to with a search typed in the sub-directory:
\* the index remembered for the parent is selected again.
C31_Witness ==
    /\ last_op.op = "key" /\ last_op.arg = "Parent" /\ last_op.ret = "Ok"
    /\ mode = "Normal" /\ selected # NoSel /\ selected = dir_positions[current_dir]
    /\ search_input = <<>> /\ preview = DefaultPreview

----------------------------------------------------------------------------
(* Properties of the migration of the legacy history, checked under
   SpecHistory *)

\* The binary file can be loaded: it is there and decodes.
BinaryLoads == bin_file.present /\ decode_from_slice(bin_file.data).ok

\* The step is a load on a disk that answers reads and writes.
AnsweredLoadStep ==
    /\ last_op'.op = "load"
    /\ last_op'.arg.read /\ last_op'.arg.write

\* The lines of the legacy file whose path exists, in their order
ExistingLines == SelectSeq(legacy_file.lines, LAMBDA l : l \in exists)

\* C32: the migration happens once.  A load that finds no binary file it can
\* decode, and a legacy file, returns one entry of frequency 1 for each legacy
\* line whose path exists, has these entries in the binary file afterwards,
\* and has renamed the legacy file to the .bak file; a binary file that
\* loads keeps loading, and a load of it returns what it holds and touches
\* neither file, so no later load migrates.
C32_MigrationHappensOnce ==
    [][/\ (AnsweredLoadStep /\ ~BinaryLoads /\ legacy_file.present) =>
             /\ last_op'.ret = "Ok"
             /\ Len(last_op'.out) = Len(ExistingLines)
             /\ \A i \in 1..Len(ExistingLines) :
                   /\ last_op'.out[i].path = ExistingLines[i]
                   /\ last_op'.out[i].frequency = 1
             /\ BinaryLoads' /\ Stored' = last_op'.out
             /\ ~legacy_file'.present
             /\ legacy_file'.bak = [present |-> TRUE, lines |-> legacy_file.lines]
       /\ BinaryLoads => BinaryLoads'
       /\ (AnsweredLoadStep /\ BinaryLoads) =>
             /\ last_op'.out = Stored
             /\ bin_file' = bin_file /\ legacy_file' = legacy_file]_vars

\* A load has returned the two entries, each of frequency 1, that were
\* migrated from a legacy file of two lines, now the .bak file.
C32_Witness ==
    /\ last_op.op = "load" /\ last_op.ret = "Ok"
    /\ BinaryLoads /\ Len(Stored) = 2 /\ last_op.out = Stored
    /\ legacy_file.bak.present /\ Len(legacy_file.bak.lines) = 2
    /\ h_saved.some /\ h_saved.entries = Stored
    /\ \A i \in 1..2 : Stored[i].frequency = 1

----------------------------------------------------------------------------
(* Properties of adding a stored path again, checked under SpecHistory *)

\* The step is a successful add of a path that the store holds.
AddAgainStep ==
    /\ last_op'.op = "add" /\ last_op'.ret = "Ok"
    /\ BinaryLoads /\ EntriesOf(Stored, last_op'.arg) # <<>>

\* The 1-based place of the first stored entry of the path added
PlaceOfAdded == position(Stored, last_op'.arg) + 1

\* C33: add(p) for a path p that is stored increments the frequency of p's
\* entry by exactly 1, refreshes its last_accessed, keeps its first_accessed
\* and moves it to the front; every other entry is kept as it is, and the
\* other entries keep their order.
C33_AddAgainTouchesOneEntry ==
    [][AddAgainStep =>
          /\ Len(Stored') = Len(Stored)
          /\ Stored'[1] = [Stored[PlaceOfAdded] EXCEPT !.frequency = @ + 1,
                                                       !.last_accessed = clock]
          /\ Tail(Stored') = RemoveAt(Stored, PlaceOfAdded - 1)]_vars

----------------------------------------------------------------------------
(* The keys typed into the search box, every character key among them *)

\* A character key while the search is being typed: handle_key_event of
\* core/events.rs.  last_op names the character.
TypeKey(key) ==
    /\ Running
    /\ is_searching
    /\ Len(search_input) < MaxSearchLen
    /\ \E r \in {events_handle_key_event(St, key, exists, clock,
                                          [read |-> TRUE, write |-> TRUE])} :
          /\ Apply(Outcome(r))
          /\ last_op' = OpRec("type", key, ResStr(r.ok), FALSE, <<>>)

NextSearch ==
    \/ NavigateDown
    \/ \E key \in Keys : \E io \in IOFor(key \in DiskKeys) : Key(key, io)
    \/ \E key \in CharKeys : TypeKey(key)

SpecSearch == Init /\ [][NextSearch]_vars

\* The indices of the items that are shown and whose name holds the search
\* text, both in lower case
Matching(text) ==
    IndicesWhere(files, LAMBDA item :
        /\ should_show_item(St, item)
        /\ contains(to_lowercase(get_display_name(item)), to_lowercase(text)))

\* C34: while the search is being typed, every character key, h, j, k, l, v
\* and / among them, is appended to the search text and the list is filtered
\* again; the key moves the selection to no other row, and changes neither
\* the current directory nor the mode.
C34_TypedKeysOnlyEditTheSearch ==
    [][last_op'.op = "type" =>
          /\ last_op'.ret = "Ok"
          /\ search_input' = Append(search_input, last_op'.arg)
          /\ is_searching'
          /\ filtered_files' = Matching(search_input')
          /\ selected' \in {selected, NoSel}
          /\ current_dir' = current_dir
          /\ mode' = mode
          /\ files' = files]_vars

\* In the history mode "v" and "l" have been typed into the search box.
C34_Witness ==
    /\ last_op.op = "type" /\ last_op.arg = "l"
    /\ mode = "History" /\ search_input = <<"v", "l">>

----------------------------------------------------------------------------
(* Properties of the Esc key, checked under Spec *)

EscStep == last_op'.op = "key" /\ last_op'.arg = "Esc"

\* C35: Esc is resolved in a fixed order.  While the search is being typed it
\* only ends the typing: the search text, the filtered list, the selection
\* and the mode stay.  Otherwise, in the history mode, it switches to the
\* directory listing (with a directory that can be read).  Otherwise, in the
\* directory listing, the program exits, with no path resolved, exported or
\* recorded.
C35_EscPriority ==
    [][EscStep =>
          IF is_searching
          THEN /\ ~is_searching'
               /\ search_input' = search_input
               /\ filtered_files' = filtered_files
               /\ selected' = selected
               /\ mode' = mode
               /\ last_op'.ret = "Ok"
          ELSE IF mode = "History"
          THEN last_op'.out[1].read =>
                  /\ mode' = "Normal"
                  /\ last_op'.ret = "Ok"
                  /\ files' = load_directory(current_dir, exists, last_op'.out[1]).files
          ELSE /\ mode' = "Exited" /\ terminal'.pc = "exited"
               /\ last_op'.out = <<>>
               /\ Stored' = Stored]_vars

\* Esc has ended the typing of a search in the history mode, and the history
\* is still shown, filtered by the text typed.
C35_Witness ==
    /\ last_op.op = "key" /\ last_op.arg = "Esc"
    /\ mode = "History" /\ ~is_searching /\ search_input # <<>>

----------------------------------------------------------------------------
(* The preview state under the scroll operations alone: contents are set and
   cleared and the offset is moved by the scrolls, never set directly *)

NextPreviewScroll ==
    \/ \E lines \in 0..MaxLines : UpdatePreview(lines)
    \/ ClearPreview
    \/ ScrollUp
    \/ ScrollDown
    \/ \E visible_height \in VisibleHeights : ScrollPageUp(visible_height)
    \/ \E visible_height \in VisibleHeights : ScrollPageDown(visible_height)
    \/ ResetScroll

SpecPreviewScroll == InitScore /\ [][NextPreviewScroll]_vars

\* C36: whatever the content length, the visible height and the offset the
\* scroll operations have reached, scroll_page_down does not decrease the
\* scroll offset of the preview and scroll_page_up does not increase it.
C36_PageScrollsAreMonotone ==
    [][/\ last_op'.op = "scroll_page_down" =>
             preview'.scroll_offset >= preview.scroll_offset
       /\ last_op'.op = "scroll_page_up" =>
             preview'.scroll_offset <= preview.scroll_offset]_vars

----------------------------------------------------------------------------
(* The directory listing with a search already typed: the states the keys
   "/" and "a" (and Esc) lead to from the start *)

\* The search texts the listing starts with
StartSearches == {<<>>, <<"a">>}

\* The variables of the application hold the state s.
StateIs(s) ==
    /\ mode = s.mode
    /\ current_dir = s.current_dir
    /\ files = s.files
    /\ filtered_files = s.filtered_files
    /\ selected = s.selected
    /\ offset = s.offset
    /\ search_input = s.search_input
    /\ is_searching = s.is_searching
    /\ show_hidden_files = s.show_hidden_files
    /\ dir_positions = s.dir_positions
    /\ left_height = s.left_height
    /\ preview = s.preview
    /\ tasks = s.tasks
    /\ double_click_state = s.double_click_state
    /\ h_requested = s.requested
    /\ h_listing = NoListing
    /\ terminal = InLoop
    /\ bin_file = s.disk.bin
    /\ legacy_file = s.disk.legacy
    /\ h_saved = s.disk.saved

InitSearched ==
    /\ exists = Paths
    /\ clock = 0
    /\ events = 0
    /\ last_op = OpRec("init", "", "Ok", FALSE, <<>>)
    /\ \E dir \in StartDirs, height \in Heights, text \in StartSearches, typing \in BOOLEAN :
          StateIs(apply_search_filter(
              [FileList_load_data(StartState(dir, height), Paths,
                                  [read |-> TRUE, write |-> TRUE]).s
                  EXCEPT !.search_input = text, !.is_searching = typing]))

SpecSearched == InitSearched /\ [][NextSearch]_vars

\* The last key has entered a sub-directory of the directory it was pressed
\* in, and this step is the key that goes back to the parent.
BackToParentStep ==
    /\ last_op.op = "key" /\ last_op.arg = "Into" /\ last_op.ret = "Ok"
    /\ Len(last_op.out) = 2 /\ last_op.out[1] # current_dir
    /\ last_op'.op = "key" /\ last_op'.arg = "Parent" /\ last_op'.ret = "Ok"

\* C37: when a sub-directory x of P has been entered with x selected, and the
\* parent is gone back to with the file system unchanged, x is selected again
\* in P, also when a search filtered the list of P at the time x was entered.
C37_PositionRoundTrip ==
    [][BackToParentStep =>
          /\ current_dir' = last_op.out[1]
          /\ Selected'.some
          /\ Selected'.item.path = current_dir]_vars

----------------------------------------------------------------------------
(* Properties of a left click on the top border of the list panel, checked
   under Spec *)

\* C38: a left click on the top border row of the list panel, the row
\* left_area.y, is ignored: the row computed on u16 is no index of an item,
\* and the selection, the double-click state and the mode are unchanged.
C38_TopBorderClickIgnored ==
    [][(last_op'.op = "left_click_row" /\ last_op'.arg = 0)
       => /\ last_op'.ret = "Ok"
          /\ selected' = selected
          /\ double_click_state' = double_click_state
          /\ mode' = mode]_vars

----------------------------------------------------------------------------
(* Properties of a change of directory that fails, checked under Spec *)

\* The step is a key of the directory listing that enters the selected
\* directory or goes to the parent, and the handler has returned the error of
\* listing the target.
FailedDirectoryChangeStep ==
    /\ last_op'.op = "key" /\ mode = "Normal"
    /\ last_op'.arg \in {"Into", "Parent"}
    /\ last_op'.ret = "Err"

\* C39: when listing the target directory fails during navigate_into_directory
\* or navigate_to_parent of the directory listing, the state is as before the
\* call: current directory, search text, typing flag, items, filtered list
\* and selection are unchanged.
C39_FailedChangeKeepsState ==
    [][FailedDirectoryChangeStep =>
          /\ current_dir' = current_dir
          /\ search_input' = search_input
          /\ is_searching' = is_searching
          /\ files' = files
          /\ filtered_files' = filtered_files
          /\ selected' = selected]_vars

----------------------------------------------------------------------------
(* The list under its navigations alone, on panels of several heights *)

\* The content heights of the list panel
ListHeights == {1, 2, 4}

InitList ==
    /\ exists = Paths
    /\ clock = 0
    /\ events = 0
    /\ last_op = OpRec("init", "", "Ok", FALSE, <<>>)
    /\ \E dir \in StartDirs, height \in ListHeights :
          StateIs(FileList_load_data(StartState(dir, height), Paths,
                                     [read |-> TRUE, write |-> TRUE]).s)

NextList ==
    \/ NavigateUp
    \/ NavigateDown
    \/ NavigateHalfPageUp
    \/ NavigateHalfPageDown
    \/ \E p \in Paths : TaskComplete(p)

SpecList == InitList /\ [][NextList]_vars

\* C40: after every navigate_up, navigate_down, navigate_half_page_up and
\* navigate_half_page_down that returned true, on a panel with a content
\* height of at least 1, the selected row is inside the window of the list:
\* offset <= selection < offset + content height.
C40_SelectionInsideWindow ==
    [][(/\ last_op'.op \in ListNavigations /\ last_op'.ret = "true"
        /\ left_height >= 1)
       => /\ offset' <= selected'
          /\ selected' < offset' + left_height]_vars

====
